---- MODULE Spec2Model ----
(***************************************************************************)
(* A model of the ISOBMFF codec of valaphee/isobmff: the seek-backpatch    *)
(* box encoder and the cardinality-checked decoder of src/src/marshal.rs,  *)
(* and the incremental writer of src/src/writer.rs.                        *)
(*                                                                         *)
(* Byte streams are sequences of naturals in 0..255.  Box values are       *)
(* records whose fields carry the names of the Rust struct fields; fixed   *)
(* point numbers are represented by their bits, FourCC values by their     *)
(* u32.                                                                    *)
(***************************************************************************)
EXTENDS Integers, Sequences, FiniteSets, TLC

VARIABLES
    output,                 \* Writer.output: the seekable sink
    media_data_box_begin,   \* Writer.media_data_box_begin
    tracks,                 \* Writer.tracks
    phase,                  \* position of the writer's caller
    written,                \* history: per track, the samples whose write_sample returned
    movie,                  \* the MovieBox finish() assembled and encoded
    codecKind,              \* codec: the box type handed to encode or decode
    codecValue,             \* codec: the value handed to encode
    codecChildren,          \* codec: history of the child boxes put into the input
    codecInput,             \* codec: the byte slice handed to decode
    codecResult,            \* codec: what decode returned
    codecOutput,            \* codec: the bytes encode produced from the decoded value
    sizedOutput             \* codec: the bytes the size-precomputed encode produced

vars == <<output, media_data_box_begin, tracks, phase, written, movie,
          codecKind, codecValue, codecChildren, codecInput, codecResult, codecOutput,
          sizedOutput>>

writerVars == <<output, media_data_box_begin, tracks, phase, written, movie>>
codecVars == <<codecKind, codecValue, codecChildren, codecInput, codecResult, codecOutput,
              sizedOutput>>

----------------------------------------------------------------------------
(* Bounds of the model *)

\* Writer instances are explored with 0..MaxTracks tracks.
MaxTracks == 2
\* Total number of sample() calls explored in Spec.
MaxSamples == 3
\* Number of sample() calls explored in SpecRuns.
MaxRunSamples == 5
\* Number of sample() calls explored in SpecChunking.
MaxChunkSamples == 64
\* Number of child boxes put into a parent's body in SpecBoxes.
MaxChildren == 3
\* Length of the byte slices and strings handed to the String codec in SpecStrings.
MaxStringLen == 4
\* Number of sample() calls explored in SpecLongDurations.
MaxLongSamples == 3

----------------------------------------------------------------------------
(* Integers.  A u8, u16 or u32 is a natural number; the model keeps every  *)
(* such value below 2^31.  A value whose width matters (every u64 field,   *)
(* and the u32 duration total of a track) is a big-endian sequence of      *)
(* 16-bit limbs: two limbs for a u32, four for a u64.                      *)

Pow2_8 == 2^8
Pow2_16 == 2^16
Pow2_24 == 2^24

\* write_u8 .. write_u32::<BigEndian>; the bits above the width are dropped,
\* which is what `x as u32` followed by encode does
U8Bytes(n) == <<n % Pow2_8>>
U16Bytes(n) == <<(n \div Pow2_8) % Pow2_8, n % Pow2_8>>
U24Bytes(n) == <<(n \div Pow2_16) % Pow2_8, (n \div Pow2_8) % Pow2_8, n % Pow2_8>>
U32Bytes(n) == <<(n \div Pow2_24) % Pow2_8, (n \div Pow2_16) % Pow2_8, (n \div Pow2_8) % Pow2_8, n % Pow2_8>>

RECURSIVE BigEndian(_)
\* from_be_bytes: the number a big-endian byte string denotes
BigEndian(bytes) ==
    IF bytes = <<>> THEN 0
    ELSE BigEndian(SubSeq(bytes, 1, Len(bytes) - 1)) * Pow2_8 + bytes[Len(bytes)]

\* a natural below 2^31 as a u32 / u64 in limbs
W32(n) == <<n \div Pow2_16, n % Pow2_16>>
W64(n) == <<0, 0, n \div Pow2_16, n % Pow2_16>>
\* `x as u64` of a u32 and `x as u32` of a u64, on limbs
WideAsU64(w) == IF Len(w) = 2 THEN <<0, 0>> \o w ELSE w
WideAsU32(w) == SubSeq(w, Len(w) - 1, Len(w))
\* write_u32 / write_u64::<BigEndian> of a value in limbs
WideBytes(w) == IF Len(w) = 2 THEN U16Bytes(w[1]) \o U16Bytes(w[2])
                ELSE U16Bytes(w[1]) \o U16Bytes(w[2]) \o U16Bytes(w[3]) \o U16Bytes(w[4])
\* read_u32 / read_u64::<BigEndian> into limbs
WideFromBytes(b) == [i \in 1..(Len(b) \div 2) |-> b[2 * i - 1] * Pow2_8 + b[2 * i]]
\* u32 += u32 on limbs: the wrapped sum and whether it overflowed
WideAdd32(w, n) ==
    LET lo == w[2] + (n % Pow2_16)
        hi == w[1] + (n \div Pow2_16) + (lo \div Pow2_16)
    IN  [sum |-> <<hi % Pow2_16, lo % Pow2_16>>, overflow |-> hi >= Pow2_16]

RECURSIVE Zeros(_)
Zeros(n) == IF n = 0 THEN <<>> ELSE <<0>> \o Zeros(n - 1)

RECURSIVE Flatten(_)
\* the bytes of consecutive writes
Flatten(parts) == IF parts = <<>> THEN <<>> ELSE Head(parts) \o Flatten(Tail(parts))

\* String::encode: the bytes, then one NUL
StringEncode(s) == s \o <<0>>

\* Option<T>: the empty sequence, or the sequence of the one value
None == <<>>
Some(x) == <<x>>
IsSome(o) == o # <<>>
Unwrap(o) == o[1]
\* impl Encode for Option<T>, T = String
OptionStringEncode(o) == IF IsSome(o) THEN StringEncode(Unwrap(o)) ELSE <<>>

----------------------------------------------------------------------------
(* FourCC tags, as the bytes of their four characters *)

\* File is the one Decode that is not a box: it has no FourCC
T_File == <<>>
T_ftyp == <<102, 116, 121, 112>>
T_free == <<102, 114, 101, 101>>
T_mdat == <<109, 100, 97, 116>>
T_moov == <<109, 111, 111, 118>>
T_mvhd == <<109, 118, 104, 100>>
T_trak == <<116, 114, 97, 107>>
T_tkhd == <<116, 107, 104, 100>>
T_mdia == <<109, 100, 105, 97>>
T_mdhd == <<109, 100, 104, 100>>
T_hdlr == <<104, 100, 108, 114>>
T_minf == <<109, 105, 110, 102>>
T_vmhd == <<118, 109, 104, 100>>
T_smhd == <<115, 109, 104, 100>>
T_dinf == <<100, 105, 110, 102>>
T_dref == <<100, 114, 101, 102>>
T_url == <<117, 114, 108, 32>>
T_urn == <<117, 114, 110, 32>>
T_stbl == <<115, 116, 98, 108>>
T_stsd == <<115, 116, 115, 100>>
T_stts == <<115, 116, 116, 115>>
T_stss == <<115, 116, 115, 115>>
T_stsz == <<115, 116, 115, 122>>
T_stsc == <<115, 116, 115, 99>>
T_stco == <<115, 116, 99, 111>>
T_sbgp == <<115, 98, 103, 112>>
T_edts == <<101, 100, 116, 115>>
T_elst == <<101, 108, 115, 116>>
T_meta == <<109, 101, 116, 97>>
T_iloc == <<105, 108, 111, 99>>
T_av01 == <<97, 118, 48, 49>>
T_avc1 == <<97, 118, 99, 49>>
T_mp4a == <<109, 112, 52, 97>>
T_isom == <<105, 115, 111, 109>>
T_iso2 == <<105, 115, 111, 50>>
T_mp41 == <<109, 112, 52, 49>>
T_vide == <<118, 105, 100, 101>>
\* "VideoHandler"
S_VideoHandler == <<86, 105, 100, 101, 111, 72, 97, 110, 100, 108, 101, 114>>

\* FourCC::from_str
FourCC(s) == BigEndian(s)

----------------------------------------------------------------------------
(* The sink: a growable buffer with a cursor (Write + Seek).  boxes is the *)
(* history of the boxes closed by update_box_header, in closing order.     *)

EmptySink == [buf |-> <<>>, pos |-> 0, boxes |-> <<>>]

\* Write::write_all at the cursor: overwrites, and extends the buffer at its end
WriteAll(out, bytes) ==
    [out EXCEPT
        !.buf = IF out.pos = Len(out.buf) THEN out.buf \o bytes
                ELSE SubSeq(out.buf, 1, out.pos) \o bytes
                     \o SubSeq(out.buf, out.pos + Len(bytes) + 1, Len(out.buf)),
        !.pos = out.pos + Len(bytes)]

\* Seek::seek(SeekFrom::Start(to))
SeekStart(out, to) == [out EXCEPT !.pos = to]

EncodeBoxHeader(out, type) == WriteAll(WriteAll(out, U32Bytes(0)), type)

\* a variant that stores the length of the body alone
UpdateBoxHeaderBodyLength(out, begin) ==
    LET end == out.pos
        size == end - begin - 8
        patched == SeekStart(WriteAll(SeekStart(out, begin), U32Bytes(size)), end)
    IN  [patched EXCEPT !.boxes = Append(@, [begin |-> begin, end |-> end])]

UpdateBoxHeader(out, begin) ==
    LET end == out.pos
        size == end - begin
        patched == SeekStart(WriteAll(SeekStart(out, begin), U32Bytes(size)), end)
    IN  [patched EXCEPT !.boxes = Append(@, [begin |-> begin, end |-> end])]

(* An encode call is modelled by the sequence of operations it performs   *)
(* on the sink, in program order: encode_box_header, writes, and           *)
(* update_box_header for the innermost box still open.                     *)
OpHeader(type) == [op |-> "encode_box_header", type |-> type, bytes |-> <<>>]
OpWrite(bytes) == [op |-> "write_all", type |-> <<>>, bytes |-> bytes]
OpUpdate == [op |-> "update_box_header", type |-> <<>>, bytes |-> <<>>]

\* One operation on the sink; begins holds the `begin` locals of the encode
\* calls in progress, innermost first.
Step(st, o) ==
    CASE o.op = "encode_box_header" ->
            [out |-> EncodeBoxHeader(st.out, o.type), begins |-> <<st.out.pos>> \o st.begins]
      [] o.op = "write_all" ->
            [out |-> WriteAll(st.out, o.bytes), begins |-> st.begins]
      [] o.op = "update_box_header" ->
            [out |-> UpdateBoxHeader(st.out, Head(st.begins)), begins |-> Tail(st.begins)]

RECURSIVE RunOps(_, _, _, _)
\* The operations ops[lo..hi] in order.  The state after the first half is
\* bound before the second half is run on it.
RunOps(st, ops, lo, hi) ==
    IF lo > hi THEN st
    ELSE IF lo = hi THEN Step(st, ops[lo])
    ELSE CHOOSE r \in { RunOps(l, ops, (lo + hi) \div 2 + 1, hi) :
                            l \in { RunOps(st, ops, lo, (lo + hi) \div 2) } } : TRUE

\* value.encode(&mut out): the sink after the operations of the call
Encode(out, ops) == RunOps([out |-> out, begins |-> <<>>], ops, 1, Len(ops)).out

\* value.encode(&mut Cursor::new(Vec::new())): the bytes written
EncodeToVec(ops) == RunOps([out |-> EmptySink, begins |-> <<>>], ops, 1, Len(ops)).out.buf

\* let begin = encode_box_header(..)?; <body>; update_box_header(output, begin)
BoxOps(type, body) == <<OpHeader(type)>> \o body \o <<OpUpdate>>

\* A box whose body is written by plain writes
LeafBoxEncode(type, body) == BoxOps(type, <<OpWrite(body)>>)

----------------------------------------------------------------------------
(* Box encoders (impl Encode for ...), each giving the operations of the   *)
(* call.  Consecutive field writes are given as one write of their bytes   *)
(* in order.                                                               *)

RECURSIVE EncodeU32s(_)
\* for entry in entries { entry.encode(output)? }
EncodeU32s(entries) ==
    IF entries = <<>> THEN <<>> ELSE U32Bytes(Head(entries)) \o EncodeU32s(Tail(entries))

MatrixIdentity ==
    [a |-> 65536, b |-> 0, u |-> 0, c |-> 0, d |-> 65536, v |-> 0, x |-> 0, y |-> 0, w |-> 2^30]

MatrixEncode(m) ==
    U32Bytes(m.a) \o U32Bytes(m.b) \o U32Bytes(m.u) \o U32Bytes(m.c) \o U32Bytes(m.d)
    \o U32Bytes(m.v) \o U32Bytes(m.x) \o U32Bytes(m.y) \o U32Bytes(m.w)

FileTypeBoxEncode(b) ==
    LeafBoxEncode(T_ftyp,
        U32Bytes(b.major_brand) \o U32Bytes(b.minor_version) \o EncodeU32s(b.compatible_brands))

MediaDataBoxEncode(b) == LeafBoxEncode(T_mdat, b)

MovieHeaderBoxDefault ==
    [creation_time |-> W64(0), modification_time |-> W64(0), timescale |-> 0,
     duration |-> W64(0), rate |-> 65536, volume |-> 256, matrix |-> MatrixIdentity,
     next_track_id |-> 0]

MovieHeaderBoxEncode(b) ==
    LeafBoxEncode(T_mvhd,
        U8Bytes(0) \o U24Bytes(0)
        \o WideBytes(WideAsU32(b.creation_time)) \o WideBytes(WideAsU32(b.modification_time))
        \o U32Bytes(b.timescale) \o WideBytes(WideAsU32(b.duration))
        \o U32Bytes(b.rate) \o U16Bytes(b.volume)
        \o U16Bytes(0) \o U32Bytes(0) \o U32Bytes(0)
        \o MatrixEncode(b.matrix)
        \o Zeros(24)
        \o U32Bytes(b.next_track_id))

TrackHeaderBoxDefault ==
    [enabled |-> TRUE, in_movie |-> TRUE, in_preview |-> TRUE,
     creation_time |-> W64(0), modification_time |-> W64(0), track_id |-> 1,
     duration |-> W64(0), layer |-> 0, alternate_group |-> 0, volume |-> 256,
     matrix |-> MatrixIdentity, width |-> 0, height |-> 0]

TrackHeaderBoxEncode(b) ==
    LeafBoxEncode(T_tkhd,
        U8Bytes(0)
        \o U24Bytes((IF b.enabled THEN 1 ELSE 0) + (IF b.in_movie THEN 2 ELSE 0)
                    + (IF b.in_preview THEN 4 ELSE 0))
        \o WideBytes(WideAsU32(b.creation_time)) \o WideBytes(WideAsU32(b.modification_time))
        \o U32Bytes(b.track_id) \o U32Bytes(0)
        \o WideBytes(WideAsU32(b.duration))
        \o U32Bytes(0) \o U32Bytes(0)
        \o U16Bytes(b.layer) \o U16Bytes(b.alternate_group) \o U16Bytes(b.volume)
        \o U16Bytes(0)
        \o MatrixEncode(b.matrix)
        \o U32Bytes(b.width) \o U32Bytes(b.height))

MediaHeaderBoxDefault ==
    [creation_time |-> W64(0), modification_time |-> W64(0), timescale |-> 0,
     duration |-> W64(0), language |-> 0]

MediaHeaderBoxEncode(b) ==
    LeafBoxEncode(T_mdhd,
        U8Bytes(0) \o U24Bytes(0)
        \o WideBytes(WideAsU32(b.creation_time)) \o WideBytes(WideAsU32(b.modification_time))
        \o U32Bytes(b.timescale) \o WideBytes(WideAsU32(b.duration))
        \o U16Bytes(b.language) \o U16Bytes(0))

HandlerBoxEncode(b) ==
    LeafBoxEncode(T_hdlr,
        U8Bytes(0) \o U24Bytes(0)
        \o U32Bytes(0) \o U32Bytes(b.type) \o U32Bytes(0) \o U32Bytes(0) \o U32Bytes(0)
        \o StringEncode(b.name))

VideoMediaHeaderBoxDefault == [graphicsmode |-> 0, opcolor |-> <<0, 0, 0>>]

VideoMediaHeaderBoxEncode(b) ==
    LeafBoxEncode(T_vmhd,
        U8Bytes(0) \o U24Bytes(1)
        \o U16Bytes(b.graphicsmode)
        \o U16Bytes(b.opcolor[1]) \o U16Bytes(b.opcolor[2]) \o U16Bytes(b.opcolor[3]))

SoundMediaHeaderBoxEncode(b) ==
    LeafBoxEncode(T_smhd,
        U8Bytes(0) \o U24Bytes(0) \o U16Bytes(b.balance) \o U16Bytes(0))

VisualSampleEntryEncode(e) ==
    Zeros(6) \o U16Bytes(e.data_reference_index)
    \o U16Bytes(0) \o U16Bytes(0) \o U32Bytes(0) \o U32Bytes(0) \o U32Bytes(0)
    \o U16Bytes(e.width) \o U16Bytes(e.height)
    \o U32Bytes(e.horizresolution) \o U32Bytes(e.vertresolution)
    \o U32Bytes(0)
    \o U16Bytes(e.frame_count)
    \o e.compressorname
    \o U16Bytes(e.depth)
    \o U16Bytes(65535)

AudioSampleEntryEncode(e) ==
    Zeros(6) \o U16Bytes(e.data_reference_index)
    \o U32Bytes(0) \o U32Bytes(0)
    \o U16Bytes(e.channelcount) \o U16Bytes(e.samplesize)
    \o U16Bytes(0) \o U16Bytes(0)
    \o U32Bytes(e.samplerate)

AV1SampleEntryEncode(e) == LeafBoxEncode(T_av01, VisualSampleEntryEncode(e.base))
AVCSampleEntryEncode(e) == LeafBoxEncode(T_avc1, VisualSampleEntryEncode(e.base))
AACSampleEntryEncode(e) == LeafBoxEncode(T_mp4a, AudioSampleEntryEncode(e.base))

\* writes version, flags and entry_count = 1, and no sample entry
SampleDescriptionBoxEncode(b) ==
    LeafBoxEncode(T_stsd, U8Bytes(0) \o U24Bytes(0) \o U32Bytes(1))

RECURSIVE EncodeTimeToSampleEntries(_)
EncodeTimeToSampleEntries(entries) ==
    IF entries = <<>> THEN <<>>
    ELSE U32Bytes(Head(entries).sample_count) \o U32Bytes(Head(entries).sample_delta)
         \o EncodeTimeToSampleEntries(Tail(entries))

TimeToSampleBoxEncode(b) ==
    LeafBoxEncode(T_stts,
        U8Bytes(0) \o U24Bytes(0) \o U32Bytes(Len(b)) \o EncodeTimeToSampleEntries(b))

SyncSampleBoxEncode(b) ==
    LeafBoxEncode(T_stss, U8Bytes(0) \o U24Bytes(0) \o U32Bytes(Len(b)) \o EncodeU32s(b))

SampleSizeBoxEncode(b) ==
    LeafBoxEncode(T_stsz,
        U8Bytes(0) \o U24Bytes(0)
        \o IF b.variant = "Value"
           THEN U32Bytes(b.sample_size) \o U32Bytes(b.sample_count)
           ELSE U32Bytes(0) \o U32Bytes(Len(b.samples)) \o EncodeU32s(b.samples))

RECURSIVE EncodeSampleToChunkEntries(_)
EncodeSampleToChunkEntries(entries) ==
    IF entries = <<>> THEN <<>>
    ELSE U32Bytes(Head(entries).first_chunk) \o U32Bytes(Head(entries).samples_per_chunk)
         \o U32Bytes(Head(entries).sample_description_index)
         \o EncodeSampleToChunkEntries(Tail(entries))

SampleToChunkBoxEncode(b) ==
    LeafBoxEncode(T_stsc,
        U8Bytes(0) \o U24Bytes(0) \o U32Bytes(Len(b)) \o EncodeSampleToChunkEntries(b))

ChunkOffsetBoxEncode(b) ==
    LeafBoxEncode(T_stco, U8Bytes(0) \o U24Bytes(0) \o U32Bytes(Len(b)) \o EncodeU32s(b))

RECURSIVE EncodeSampleToGroupEntries(_)
EncodeSampleToGroupEntries(entries) ==
    IF entries = <<>> THEN <<>>
    ELSE U32Bytes(Head(entries).sample_count) \o U32Bytes(Head(entries).group_description_index)
         \o EncodeSampleToGroupEntries(Tail(entries))

SampleToGroupBoxEncode(b) ==
    LeafBoxEncode(T_sbgp,
        U8Bytes(0) \o U24Bytes(0) \o U32Bytes(b.grouping_type) \o U32Bytes(Len(b.entries))
        \o EncodeSampleToGroupEntries(b.entries))

RECURSIVE EncodeEditListEntries(_)
EncodeEditListEntries(entries) ==
    IF entries = <<>> THEN <<>>
    ELSE WideBytes(WideAsU32(Head(entries).segment_duration))
         \o WideBytes(WideAsU32(Head(entries).media_time))
         \o U32Bytes(Head(entries).media_rate)
         \o EncodeEditListEntries(Tail(entries))

EditListBoxEncode(b) ==
    LeafBoxEncode(T_elst,
        U8Bytes(0) \o U24Bytes(0) \o U32Bytes(Len(b)) \o EncodeEditListEntries(b))

EditBoxEncode(b) ==
    BoxOps(T_edts, IF IsSome(b.edit_list) THEN EditListBoxEncode(Unwrap(b.edit_list)) ELSE <<>>)

DataEntryUrlBoxEncode(b) ==
    LeafBoxEncode(T_url,
        U8Bytes(0) \o U24Bytes(IF ~IsSome(b.location) THEN 1 ELSE 0)
        \o OptionStringEncode(b.location))

DataEntryUrnBoxEncode(b) ==
    LeafBoxEncode(T_urn,
        U8Bytes(0) \o U24Bytes(0) \o StringEncode(b.name) \o StringEncode(b.location))

RECURSIVE EncodeDataEntries(_)
\* for entry in &self.0 { match entry { Url(e) => e.encode(..), Urn(e) => e.encode(..) } }
EncodeDataEntries(entries) ==
    IF entries = <<>> THEN <<>>
    ELSE (IF Head(entries).variant = "Url" THEN DataEntryUrlBoxEncode(Head(entries).v)
          ELSE DataEntryUrnBoxEncode(Head(entries).v))
         \o EncodeDataEntries(Tail(entries))

DataReferenceBoxEncode(b) ==
    BoxOps(T_dref,
        <<OpWrite(U8Bytes(0) \o U24Bytes(0) \o U32Bytes(Len(b)))>> \o EncodeDataEntries(b))

DataEntryUrlBoxDefault == [location |-> None]

DataInformationBoxDefault ==
    [reference |-> <<[variant |-> "Url", v |-> [location |-> None]]>>]

DataInformationBoxEncode(b) == BoxOps(T_dinf, DataReferenceBoxEncode(b.reference))

SampleTableBoxEncode(b) ==
    BoxOps(T_stbl,
        SampleDescriptionBoxEncode(b.description)
        \o TimeToSampleBoxEncode(b.time_to_sample)
        \o (IF IsSome(b.sync_sample) THEN SyncSampleBoxEncode(Unwrap(b.sync_sample)) ELSE <<>>)
        \o SampleSizeBoxEncode(b.sample_size)
        \o SampleToChunkBoxEncode(b.sample_to_chunk)
        \o ChunkOffsetBoxEncode(b.chunk_offset)
        \o (IF IsSome(b.sample_to_group) THEN SampleToGroupBoxEncode(Unwrap(b.sample_to_group))
            ELSE <<>>))

MediaInformationBoxEncode(b) ==
    BoxOps(T_minf,
        (IF b.header.variant = "Video" THEN VideoMediaHeaderBoxEncode(b.header.v)
         ELSE SoundMediaHeaderBoxEncode(b.header.v))
        \o DataInformationBoxEncode(b.data_information)
        \o SampleTableBoxEncode(b.sample_table))

MediaBoxEncode(b) ==
    BoxOps(T_mdia,
        MediaHeaderBoxEncode(b.header)
        \o HandlerBoxEncode(b.handler)
        \o MediaInformationBoxEncode(b.information))

TrackBoxEncode(b) ==
    BoxOps(T_trak,
        TrackHeaderBoxEncode(b.header)
        \o MediaBoxEncode(b.media)
        \o (IF IsSome(b.edit) THEN EditBoxEncode(Unwrap(b.edit)) ELSE <<>>))

RECURSIVE EncodeTracks(_)
\* for track in &self.tracks { track.encode(output)? }
EncodeTracks(bs) ==
    IF bs = <<>> THEN <<>> ELSE TrackBoxEncode(Head(bs)) \o EncodeTracks(Tail(bs))

MovieBoxEncode(b) ==
    BoxOps(T_moov, MovieHeaderBoxEncode(b.header) \o EncodeTracks(b.tracks))

\* writes version and flags only
ItemLocationBoxEncode(b) == LeafBoxEncode(T_iloc, U8Bytes(0) \o U24Bytes(0))

MetaBoxEncode(b) ==
    BoxOps(T_meta,
        <<OpWrite(U8Bytes(0) \o U24Bytes(0))>>
        \o HandlerBoxEncode(b.handler)
        \o (IF IsSome(b.item_location) THEN ItemLocationBoxEncode(Unwrap(b.item_location)) ELSE <<>>))

RECURSIVE EncodeMediaData(_)
\* for media_data in &self.media_data { media_data.encode(output)? }
EncodeMediaData(bs) ==
    IF bs = <<>> THEN <<>> ELSE MediaDataBoxEncode(Head(bs)) \o EncodeMediaData(Tail(bs))

\* File::encode: file_type, movie, media_data, meta, in this order
FileEncode(f) ==
    FileTypeBoxEncode(f.file_type)
    \o (IF IsSome(f.movie) THEN MovieBoxEncode(Unwrap(f.movie)) ELSE <<>>)
    \o EncodeMediaData(f.media_data)
    \o (IF IsSome(f.meta) THEN MetaBoxEncode(Unwrap(f.meta)) ELSE <<>>)

----------------------------------------------------------------------------
(* The size-precomputed encoders (src/src/marshall.rs).  Every impl Encode *)
(* has a size() and an encode that writes (size() as u32), the type and    *)
(* the body to a sink that is only Write; a parent's size() adds the       *)
(* size() of its children.  An impl is given here as the record of what    *)
(* size() returns and of the bytes encode writes.  The encoders are handed *)
(* the values of the encoders above and read the fields the structs of the *)
(* two files share: a tuple struct's .0 is marshall.rs's `entries` or      *)
(* `data`, an Option<String> location is the String it holds or the empty  *)
(* one, a SampleSizeBox::Value is its sample_size, and the sample entry of *)
(* a SampleDescriptionBox is the `visual` or the `audio` entry, with no    *)
(* config bytes.                                                           *)

\* (self.size() as u32).encode(output)?; <type>.encode(output)?; <body>
SizedBox(size, type, body) == [size |-> size, bytes |-> U32Bytes(size) \o type \o body]

\* impl Encode for String: an empty string has size 0 and writes nothing
SizedString(s) ==
    IF s = <<>> THEN [size |-> 0, bytes |-> <<>>]
    ELSE [size |-> Len(s) + 1, bytes |-> s \o <<0>>]

SizedFileTypeBox(b) ==
    SizedBox(4 + 4 + 4 + 4 + Len(b.compatible_brands) * 4, T_ftyp,
        U32Bytes(b.major_brand) \o U32Bytes(b.minor_version) \o EncodeU32s(b.compatible_brands))

SizedMediaDataBox(b) == SizedBox(4 + 4 + Len(b), T_mdat, b)

SizedMovieHeaderBox(b) ==
    SizedBox(4 + 4 + 1 + 3 + 4 + 4 + 4 + 4 + 4 + 2 + 2 + 2 * 4 + 9 * 4 + 6 * 4 + 4, T_mvhd,
        U8Bytes(0) \o U24Bytes(0)
        \o WideBytes(WideAsU32(b.creation_time)) \o WideBytes(WideAsU32(b.modification_time))
        \o U32Bytes(b.timescale) \o WideBytes(WideAsU32(b.duration))
        \o U32Bytes(b.rate) \o U16Bytes(b.volume)
        \o U16Bytes(0) \o U32Bytes(0) \o U32Bytes(0)
        \o MatrixEncode(b.matrix)
        \o Zeros(24)
        \o U32Bytes(b.next_track_id))

\* flags are written as 0: the struct has no enabled, in_movie, in_preview
SizedTrackHeaderBox(b) ==
    SizedBox(4 + 4 + 1 + 3 + 4 + 4 + 4 + 4 + 4 + 4 + 4 + 2 + 2 + 2 + 2 + 9 * 4 + 4 + 4, T_tkhd,
        U8Bytes(0) \o U24Bytes(0)
        \o WideBytes(WideAsU32(b.creation_time)) \o WideBytes(WideAsU32(b.modification_time))
        \o U32Bytes(b.track_id) \o U32Bytes(0)
        \o WideBytes(WideAsU32(b.duration))
        \o U32Bytes(0) \o U32Bytes(0)
        \o U16Bytes(b.layer) \o U16Bytes(b.alternate_group) \o U16Bytes(b.volume)
        \o U16Bytes(0)
        \o MatrixEncode(b.matrix)
        \o U32Bytes(b.width) \o U32Bytes(b.height))

SizedMediaHeaderBox(b) ==
    SizedBox(4 + 4 + 1 + 3 + 4 + 4 + 4 + 4 + 2 + 2, T_mdhd,
        U8Bytes(0) \o U24Bytes(0)
        \o WideBytes(WideAsU32(b.creation_time)) \o WideBytes(WideAsU32(b.modification_time))
        \o U32Bytes(b.timescale) \o WideBytes(WideAsU32(b.duration))
        \o U16Bytes(b.language) \o U16Bytes(0))

SizedHandlerBox(b) ==
    SizedBox(4 + 4 + 1 + 3 + 4 + 4 + 4 + 4 + 4 + SizedString(b.name).size, T_hdlr,
        U8Bytes(0) \o U24Bytes(0)
        \o U32Bytes(0) \o U32Bytes(b.type) \o U32Bytes(0) \o U32Bytes(0) \o U32Bytes(0)
        \o SizedString(b.name).bytes)

\* flags are written as 0
SizedVideoMediaHeaderBox(b) ==
    SizedBox(4 + 4 + 1 + 3 + 2 + 3 * 2, T_vmhd,
        U8Bytes(0) \o U24Bytes(0)
        \o U16Bytes(b.graphicsmode)
        \o U16Bytes(b.opcolor[1]) \o U16Bytes(b.opcolor[2]) \o U16Bytes(b.opcolor[3]))

SizedSoundMediaHeaderBox(b) ==
    SizedBox(4 + 4 + 1 + 3 + 2 + 2, T_smhd,
        U8Bytes(0) \o U24Bytes(0) \o U16Bytes(b.balance) \o U16Bytes(0))

\* flags are written as 0 whether or not there is a location
SizedDataEntryUrlBox(b) ==
    LET location == SizedString(IF IsSome(b.location) THEN Unwrap(b.location) ELSE <<>>)
    IN  SizedBox(4 + 4 + 1 + 3 + location.size, T_url,
            U8Bytes(0) \o U24Bytes(0) \o location.bytes)

SizedDataEntryUrnBox(b) ==
    SizedBox(4 + 4 + 1 + 3 + SizedString(b.name).size + SizedString(b.location).size, T_urn,
        U8Bytes(0) \o U24Bytes(0) \o SizedString(b.name).bytes \o SizedString(b.location).bytes)

RECURSIVE SizedDataEntries(_)
\* the sum of the entries' size() and, in order, what their encode writes
SizedDataEntries(entries) ==
    IF entries = <<>> THEN [size |-> 0, bytes |-> <<>>]
    ELSE LET e == IF Head(entries).variant = "Url" THEN SizedDataEntryUrlBox(Head(entries).v)
                  ELSE SizedDataEntryUrnBox(Head(entries).v)
             r == SizedDataEntries(Tail(entries))
         IN  [size |-> e.size + r.size, bytes |-> e.bytes \o r.bytes]

SizedDataReferenceBox(b) ==
    SizedBox(4 + 4 + 1 + 3 + 4 + SizedDataEntries(b).size, T_dref,
        U8Bytes(0) \o U24Bytes(0) \o U32Bytes(Len(b)) \o SizedDataEntries(b).bytes)

SizedDataInformationBox(b) ==
    SizedBox(4 + 4 + SizedDataReferenceBox(b.reference).size, T_dinf,
        SizedDataReferenceBox(b.reference).bytes)

SizedTimeToSampleBox(b) ==
    SizedBox(4 + 4 + 1 + 3 + 4 + Len(b) * (4 + 4), T_stts,
        U8Bytes(0) \o U24Bytes(0) \o U32Bytes(Len(b)) \o EncodeTimeToSampleEntries(b))

\* always typed avc1
SizedVisualSampleEntry(e) ==
    SizedBox(4 + 4 + 6 * 1 + 2 + 2 + 2 + 3 * 4 + 2 + 2 + 4 + 4 + 4 + 2 + 32 + 2 + 2 + 0, T_avc1,
        VisualSampleEntryEncode(e))

SizedAudioSampleEntry(e) ==
    SizedBox(4 + 4 + 6 * 1 + 2 + 2 * 4 + 2 + 2 + 2 + 2 + 4 + 0, T_mp4a,
        AudioSampleEntryEncode(e))

\* writes entry_count = 1 and then the entries that are Some
SizedSampleDescriptionBox(b) ==
    LET entry == IF b.variant = "AAC" THEN SizedAudioSampleEntry(b.v.base)
                 ELSE SizedVisualSampleEntry(b.v.base)
    IN  SizedBox(4 + 4 + 1 + 3 + 4 + entry.size, T_stsd,
            U8Bytes(0) \o U24Bytes(0) \o U32Bytes(1) \o entry.bytes)

\* Value(sample_size) writes sample_size and a sample_count of 0
SizedSampleSizeBox(b) ==
    IF b.variant = "Value"
    THEN SizedBox(4 + 4 + 1 + 3 + 4 + 4 + 0, T_stsz,
             U8Bytes(0) \o U24Bytes(0) \o U32Bytes(b.sample_size) \o U32Bytes(0))
    ELSE SizedBox(4 + 4 + 1 + 3 + 4 + 4 + Len(b.samples) * 4, T_stsz,
             U8Bytes(0) \o U24Bytes(0) \o U32Bytes(0) \o U32Bytes(Len(b.samples))
             \o EncodeU32s(b.samples))

SizedSampleToChunkBox(b) ==
    SizedBox(4 + 4 + 1 + 3 + 4 + Len(b) * (4 + 4 + 4), T_stsc,
        U8Bytes(0) \o U24Bytes(0) \o U32Bytes(Len(b)) \o EncodeSampleToChunkEntries(b))

SizedChunkOffsetBox(b) ==
    SizedBox(4 + 4 + 1 + 3 + 4 + Len(b) * 4, T_stco,
        U8Bytes(0) \o U24Bytes(0) \o U32Bytes(Len(b)) \o EncodeU32s(b))

SizedSyncSampleBox(b) ==
    SizedBox(4 + 4 + 1 + 3 + 4 + Len(b) * 4, T_stss,
        U8Bytes(0) \o U24Bytes(0) \o U32Bytes(Len(b)) \o EncodeU32s(b))

SizedSampleToGroupBox(b) ==
    SizedBox(4 + 4 + 1 + 3 + 4 + 4 + Len(b.entries) * (4 + 4), T_sbgp,
        U8Bytes(0) \o U24Bytes(0) \o U32Bytes(b.grouping_type) \o U32Bytes(Len(b.entries))
        \o EncodeSampleToGroupEntries(b.entries))

\* description, time_to_sample, sample_to_chunk, sample_size, chunk_offset,
\* sync_sample, sample_to_group, in this order
SizedSampleTableBox(b) ==
    LET sync_sample == IF IsSome(b.sync_sample) THEN SizedSyncSampleBox(Unwrap(b.sync_sample))
                       ELSE [size |-> 0, bytes |-> <<>>]
        sample_to_group == IF IsSome(b.sample_to_group)
                           THEN SizedSampleToGroupBox(Unwrap(b.sample_to_group))
                           ELSE [size |-> 0, bytes |-> <<>>]
    IN  SizedBox(4 + 4 + SizedSampleDescriptionBox(b.description).size
                 + SizedTimeToSampleBox(b.time_to_sample).size
                 + SizedSampleToChunkBox(b.sample_to_chunk).size
                 + SizedSampleSizeBox(b.sample_size).size
                 + SizedChunkOffsetBox(b.chunk_offset).size
                 + sync_sample.size + sample_to_group.size, T_stbl,
            SizedSampleDescriptionBox(b.description).bytes
            \o SizedTimeToSampleBox(b.time_to_sample).bytes
            \o SizedSampleToChunkBox(b.sample_to_chunk).bytes
            \o SizedSampleSizeBox(b.sample_size).bytes
            \o SizedChunkOffsetBox(b.chunk_offset).bytes
            \o sync_sample.bytes \o sample_to_group.bytes)

SizedMediaInformationBox(b) ==
    LET header == IF b.header.variant = "Video" THEN SizedVideoMediaHeaderBox(b.header.v)
                  ELSE SizedSoundMediaHeaderBox(b.header.v)
    IN  SizedBox(4 + 4 + header.size + SizedDataInformationBox(b.data_information).size
                 + SizedSampleTableBox(b.sample_table).size, T_minf,
            header.bytes \o SizedDataInformationBox(b.data_information).bytes
            \o SizedSampleTableBox(b.sample_table).bytes)

SizedMediaBox(b) ==
    SizedBox(4 + 4 + SizedMediaHeaderBox(b.header).size + SizedHandlerBox(b.handler).size
             + SizedMediaInformationBox(b.information).size, T_mdia,
        SizedMediaHeaderBox(b.header).bytes \o SizedHandlerBox(b.handler).bytes
        \o SizedMediaInformationBox(b.information).bytes)

SizedEditListBox(b) ==
    SizedBox(4 + 4 + 1 + 3 + 4 + Len(b) * (4 + 4 + 4), T_elst,
        U8Bytes(0) \o U24Bytes(0) \o U32Bytes(Len(b)) \o EncodeEditListEntries(b))

SizedEditBox(b) ==
    LET edit_list == IF IsSome(b.edit_list) THEN SizedEditListBox(Unwrap(b.edit_list))
                     ELSE [size |-> 0, bytes |-> <<>>]
    IN  SizedBox(4 + 4 + edit_list.size, T_edts, edit_list.bytes)

\* header, edit, media, in this order
SizedTrackBox(b) ==
    LET edit == IF IsSome(b.edit) THEN SizedEditBox(Unwrap(b.edit))
                ELSE [size |-> 0, bytes |-> <<>>]
    IN  SizedBox(4 + 4 + SizedTrackHeaderBox(b.header).size + edit.size
                 + SizedMediaBox(b.media).size, T_trak,
            SizedTrackHeaderBox(b.header).bytes \o edit.bytes \o SizedMediaBox(b.media).bytes)

RECURSIVE SizedTracks(_)
\* self.tracks.iter().map(Encode::size).sum() and for track in &self.tracks
SizedTracks(bs) ==
    IF bs = <<>> THEN [size |-> 0, bytes |-> <<>>]
    ELSE LET t == SizedTrackBox(Head(bs))
             r == SizedTracks(Tail(bs))
         IN  [size |-> t.size + r.size, bytes |-> t.bytes \o r.bytes]

SizedMovieBox(b) ==
    SizedBox(4 + 4 + SizedMovieHeaderBox(b.header).size + SizedTracks(b.tracks).size, T_moov,
        SizedMovieHeaderBox(b.header).bytes \o SizedTracks(b.tracks).bytes)

----------------------------------------------------------------------------
(* Decoding.  A decode call ends in one of four ways: Ok with the value    *)
(* and the input left over, Err(Error::Io), Err(InvalidBoxQuantity), or a  *)
(* panic (assert_eq!, panic!, todo!, unwrap, split_at out of range).       *)

Ok(val, rest) == [st |-> "ok", val |-> val, rest |-> rest]
ErrIo == [st |-> "io"]
ErrQuantity(type, quantity, expected) ==
    [st |-> "qty", type |-> type, quantity |-> quantity, expected |-> expected]
Panicked == [st |-> "panic"]

(* The fields a decoder reads one after the other.  Each is read big-endian *)
(* from the front of the input; a read past the end is Err(Io).             *)
\* let name = <unsigned integer of width bytes>::decode(input)?
FUint(name, width) == [kind |-> "uint", name |-> name, width |-> width, expect |-> 0]
\* let name = u64::decode(input)?
FWide(name) == [kind |-> "wide", name |-> name, width |-> 8, expect |-> 0]
\* let name = u32::decode(input)? as u64
FWide32(name) == [kind |-> "wide32", name |-> name, width |-> 4, expect |-> 0]
\* input.read_exact(&mut name)?
FBytes(name, width) == [kind |-> "bytes", name |-> name, width |-> width, expect |-> 0]
\* assert_eq!(<unsigned integer of width bytes>::decode(input)?, expect)
FAssert(width, expect) == [kind |-> "assert", name |-> "", width |-> width, expect |-> expect]
\* a value read and dropped
FSkip(width) == [kind |-> "skip", name |-> "", width |-> width, expect |-> 0]

\* the value a field holds in its bytes
FieldValue(f, bytes) ==
    CASE f.kind = "wide" -> WideFromBytes(bytes)
      [] f.kind = "wide32" -> WideFromBytes(Zeros(4) \o bytes)
      [] f.kind = "bytes" -> bytes
      [] OTHER -> BigEndian(bytes)

RECURSIVE ReadFields(_, _, _)
\* the reads of fields in order, from input, onto the values read so far
ReadFields(input, fields, env) ==
    IF fields = <<>> THEN Ok(env, input)
    ELSE LET f == Head(fields)
         IN  IF Len(input) < f.width THEN ErrIo
             ELSE LET bytes == SubSeq(input, 1, f.width)
                      rest == SubSeq(input, f.width + 1, Len(input))
                  IN  CASE f.kind = "assert" ->
                               IF BigEndian(bytes) = f.expect
                               THEN ReadFields(rest, Tail(fields), env)
                               ELSE Panicked
                        [] f.kind = "skip" -> ReadFields(rest, Tail(fields), env)
                        [] OTHER ->
                               ReadFields(rest, Tail(fields),
                                          (f.name :> FieldValue(f, bytes)) @@ env)

\* the value read for no field yet
NoFields == [n \in {} |-> 0]

\* the fields of env named in names, as a record
Pick(env, names) == [n \in names |-> env[n]]

\* impl Decode for String: up to the first NUL, which stays in the input;
\* unwrap panics when there is none
StringDecode(input) ==
    IF \A k \in 1..Len(input) : input[k] # 0 THEN Panicked
    ELSE LET length == (CHOOSE k \in 1..Len(input) :
                           /\ input[k] = 0
                           /\ \A j \in 1..(k - 1) : input[j] # 0) - 1
         IN  Ok(SubSeq(input, 1, length), SubSeq(input, length + 1, Len(input)))

MatrixFields ==
    <<FUint("a", 4), FUint("b", 4), FUint("u", 4), FUint("c", 4), FUint("d", 4),
      FUint("v", 4), FUint("x", 4), FUint("y", 4), FUint("w", 4)>>

MatrixNames == {"a", "b", "u", "c", "d", "v", "x", "y", "w"}

RECURSIVE DecodeChunks(_)
\* input.chunks(4).map(|chunk| u32::from_be_bytes(chunk.try_into().unwrap()))
DecodeChunks(input) ==
    IF input = <<>> THEN <<>>
    ELSE <<BigEndian(SubSeq(input, 1, 4))>> \o DecodeChunks(SubSeq(input, 5, Len(input)))

FileTypeBoxDecode(input) ==
    LET r == ReadFields(input, <<FUint("major_brand", 4), FUint("minor_version", 4)>>, NoFields)
    IN  IF r.st # "ok" THEN r
        ELSE IF Len(r.rest) % 4 # 0 THEN Panicked
        ELSE Ok([major_brand |-> r.val.major_brand,
                 minor_version |-> r.val.minor_version,
                 compatible_brands |-> DecodeChunks(r.rest)], <<>>)

MediaDataBoxDecode(input) == Ok(input, <<>>)

\* the version-dependent times of mvhd and mdhd
TimeFields(version) ==
    IF version = 0
    THEN <<FWide32("creation_time"), FWide32("modification_time"), FUint("timescale", 4),
           FWide32("duration")>>
    ELSE <<FWide("creation_time"), FWide("modification_time"), FUint("timescale", 4),
           FWide("duration")>>

MovieHeaderBoxDecode(input) ==
    LET h == ReadFields(input, <<FUint("version", 1), FSkip(3)>>, NoFields)
    IN  IF h.st # "ok" THEN h
        ELSE IF h.val.version \notin {0, 1} THEN Panicked
        ELSE LET r == ReadFields(h.rest,
                         TimeFields(h.val.version)
                         \o <<FUint("rate", 4), FUint("volume", 2),
                              FAssert(2, 0), FAssert(4, 0), FAssert(4, 0)>>
                         \o MatrixFields
                         \o <<FAssert(4, 0), FAssert(4, 0), FAssert(4, 0),
                              FAssert(4, 0), FAssert(4, 0), FAssert(4, 0),
                              FUint("next_track_id", 4)>>,
                         NoFields)
             IN  IF r.st # "ok" THEN r
                 ELSE Ok([creation_time |-> r.val.creation_time,
                          modification_time |-> r.val.modification_time,
                          timescale |-> r.val.timescale,
                          duration |-> r.val.duration,
                          rate |-> r.val.rate,
                          volume |-> r.val.volume,
                          matrix |-> Pick(r.val, MatrixNames),
                          next_track_id |-> r.val.next_track_id], r.rest)

TrackHeaderBoxDecode(input) ==
    LET h == ReadFields(input, <<FUint("version", 1), FUint("flags", 3)>>, NoFields)
    IN  IF h.st # "ok" THEN h
        ELSE IF h.val.version \notin {0, 1} THEN Panicked
        ELSE LET r == ReadFields(h.rest,
                         (IF h.val.version = 0
                          THEN <<FWide32("creation_time"), FWide32("modification_time"),
                                 FUint("track_id", 4), FAssert(4, 0), FWide32("duration")>>
                          ELSE <<FWide("creation_time"), FWide("modification_time"),
                                 FUint("track_id", 4), FAssert(4, 0), FWide("duration")>>)
                         \o <<FAssert(4, 0), FAssert(4, 0),
                              FUint("layer", 2), FUint("alternate_group", 2),
                              FUint("volume", 2), FAssert(2, 0)>>
                         \o MatrixFields
                         \o <<FUint("width", 4), FUint("height", 4)>>,
                         NoFields)
             IN  IF r.st # "ok" THEN r
                 ELSE Ok([enabled |-> h.val.flags % 2 = 1,
                          in_movie |-> (h.val.flags \div 2) % 2 = 1,
                          in_preview |-> (h.val.flags \div 4) % 2 = 1,
                          creation_time |-> r.val.creation_time,
                          modification_time |-> r.val.modification_time,
                          track_id |-> r.val.track_id,
                          duration |-> r.val.duration,
                          layer |-> r.val.layer,
                          alternate_group |-> r.val.alternate_group,
                          volume |-> r.val.volume,
                          matrix |-> Pick(r.val, MatrixNames),
                          width |-> r.val.width,
                          height |-> r.val.height], r.rest)

MediaHeaderBoxDecode(input) ==
    LET h == ReadFields(input, <<FUint("version", 1), FSkip(3)>>, NoFields)
    IN  IF h.st # "ok" THEN h
        ELSE IF h.val.version \notin {0, 1} THEN Panicked
        ELSE LET r == ReadFields(h.rest,
                         TimeFields(h.val.version) \o <<FUint("language", 2), FAssert(2, 0)>>,
                         NoFields)
             IN  IF r.st # "ok" THEN r
                 ELSE Ok(Pick(r.val, {"creation_time", "modification_time", "timescale",
                                      "duration", "language"}), r.rest)

HandlerBoxDecode(input) ==
    LET r == ReadFields(input,
                 <<FAssert(1, 0), FSkip(3), FAssert(4, 0), FUint("type", 4),
                   FAssert(4, 0), FAssert(4, 0), FAssert(4, 0)>>, NoFields)
    IN  IF r.st # "ok" THEN r
        ELSE LET n == StringDecode(r.rest)
             IN  IF n.st # "ok" THEN n
                 ELSE Ok([type |-> r.val.type, name |-> n.val], n.rest)

VideoMediaHeaderBoxDecode(input) ==
    LET r == ReadFields(input,
                 <<FAssert(1, 0), FSkip(3), FUint("graphicsmode", 2),
                   FUint("r", 2), FUint("g", 2), FUint("b", 2)>>, NoFields)
    IN  IF r.st # "ok" THEN r
        ELSE Ok([graphicsmode |-> r.val.graphicsmode,
                 opcolor |-> <<r.val.r, r.val.g, r.val.b>>], r.rest)

SoundMediaHeaderBoxDecode(input) ==
    LET r == ReadFields(input, <<FAssert(1, 0), FSkip(3), FUint("balance", 2), FAssert(2, 0)>>,
                        NoFields)
    IN  IF r.st # "ok" THEN r ELSE Ok([balance |-> r.val.balance], r.rest)

VisualSampleEntryDecode(input) ==
    LET r == ReadFields(input,
                 <<FAssert(1, 0), FAssert(1, 0), FAssert(1, 0), FAssert(1, 0), FAssert(1, 0),
                   FAssert(1, 0), FUint("data_reference_index", 2),
                   FAssert(2, 0), FAssert(2, 0), FAssert(4, 0), FAssert(4, 0), FAssert(4, 0),
                   FUint("width", 2), FUint("height", 2),
                   FUint("horizresolution", 4), FUint("vertresolution", 4),
                   FAssert(4, 0), FUint("frame_count", 2), FBytes("compressorname", 32),
                   FUint("depth", 2), FAssert(2, 65535)>>, NoFields)
    IN  IF r.st # "ok" THEN r
        ELSE Ok(Pick(r.val, {"data_reference_index", "width", "height", "horizresolution",
                             "vertresolution", "frame_count", "compressorname", "depth"}),
                r.rest)

AudioSampleEntryDecode(input) ==
    LET r == ReadFields(input,
                 <<FAssert(1, 0), FAssert(1, 0), FAssert(1, 0), FAssert(1, 0), FAssert(1, 0),
                   FAssert(1, 0), FUint("data_reference_index", 2),
                   FAssert(4, 0), FAssert(4, 0),
                   FUint("channelcount", 2), FUint("samplesize", 2),
                   FAssert(2, 0), FAssert(2, 0), FUint("samplerate", 4)>>, NoFields)
    IN  IF r.st # "ok" THEN r
        ELSE Ok(Pick(r.val, {"data_reference_index", "channelcount", "samplesize",
                             "samplerate"}), r.rest)

\* AV1SampleEntry::decode, AVCSampleEntry::decode: Self { base: Decode::decode(input)? }
VisualEntryDecode(input) ==
    LET r == VisualSampleEntryDecode(input)
    IN  IF r.st # "ok" THEN r ELSE Ok([base |-> r.val], r.rest)

\* AACSampleEntry::decode
AACSampleEntryDecode(input) ==
    LET r == AudioSampleEntryDecode(input)
    IN  IF r.st # "ok" THEN r ELSE Ok([base |-> r.val], r.rest)

\* input.split_at((size - 4 - 4) as usize): the subtraction overflows for
\* size < 8, and the split is out of range past the end of the input
SplitPanics(size, input) == size < 8 \/ size - 8 > Len(input)

SampleDescriptionBoxDecode(input) ==
    LET r == ReadFields(input,
                 <<FAssert(1, 0), FSkip(3), FAssert(4, 1), FUint("size", 4), FBytes("type", 4)>>,
                 NoFields)
    IN  IF r.st # "ok" THEN r
        ELSE IF SplitPanics(r.val.size, r.rest) THEN Panicked
        ELSE LET data == SubSeq(r.rest, 1, r.val.size - 8)
                 remaining_data == SubSeq(r.rest, r.val.size - 8 + 1, Len(r.rest))
                 e == CASE r.val.type = T_av01 -> VisualEntryDecode(data)
                        [] r.val.type = T_avc1 -> VisualEntryDecode(data)
                        [] r.val.type = T_mp4a -> AACSampleEntryDecode(data)
                        [] OTHER -> Panicked      \* entry.unwrap() on None
                 variant == CASE r.val.type = T_av01 -> "AV1"
                              [] r.val.type = T_avc1 -> "AVC"
                              [] OTHER -> "AAC"
             IN  IF e.st # "ok" THEN e
                 ELSE Ok([variant |-> variant, v |-> e.val], remaining_data)

RECURSIVE ReadEntries(_, _, _, _)
\* for _ in 0..count { <read fields>; entries.push(..) }
ReadEntries(input, count, fields, entries) ==
    IF count = 0 THEN Ok(entries, input)
    ELSE LET r == ReadFields(input, fields, NoFields)
         IN  IF r.st # "ok" THEN r
             ELSE ReadEntries(r.rest, count - 1, fields, Append(entries, r.val))

\* the entries that are a single u32
Singles(entries) == [k \in 1..Len(entries) |-> entries[k].entry]

\* version 0, flags, entry_count, and entry_count entries of the given fields
TableDecode(input, fields) ==
    LET h == ReadFields(input, <<FAssert(1, 0), FSkip(3), FUint("entry_count", 4)>>, NoFields)
    IN  IF h.st # "ok" THEN h
        ELSE ReadEntries(h.rest, h.val.entry_count, fields, <<>>)

TimeToSampleBoxDecode(input) ==
    TableDecode(input, <<FUint("sample_count", 4), FUint("sample_delta", 4)>>)

SyncSampleBoxDecode(input) ==
    LET r == TableDecode(input, <<FUint("entry", 4)>>)
    IN  IF r.st # "ok" THEN r ELSE Ok(Singles(r.val), r.rest)

SampleToChunkBoxDecode(input) ==
    TableDecode(input, <<FUint("first_chunk", 4), FUint("samples_per_chunk", 4),
                         FUint("sample_description_index", 4)>>)

ChunkOffsetBoxDecode(input) ==
    LET r == TableDecode(input, <<FUint("entry", 4)>>)
    IN  IF r.st # "ok" THEN r ELSE Ok(Singles(r.val), r.rest)

SampleSizeBoxDecode(input) ==
    LET h == ReadFields(input,
                 <<FAssert(1, 0), FSkip(3), FUint("sample_size", 4), FUint("sample_count", 4)>>,
                 NoFields)
    IN  IF h.st # "ok" THEN h
        ELSE IF h.val.sample_size # 0
        THEN Ok([variant |-> "Value", sample_size |-> h.val.sample_size,
                 sample_count |-> h.val.sample_count], h.rest)
        ELSE LET r == ReadEntries(h.rest, h.val.sample_count, <<FUint("entry", 4)>>, <<>>)
             IN  IF r.st # "ok" THEN r
                 ELSE Ok([variant |-> "PerSample", samples |-> Singles(r.val)], r.rest)

SampleToGroupBoxDecode(input) ==
    LET h == ReadFields(input,
                 <<FAssert(1, 0), FSkip(3), FUint("grouping_type", 4), FUint("entry_count", 4)>>,
                 NoFields)
    IN  IF h.st # "ok" THEN h
        ELSE LET r == ReadEntries(h.rest, h.val.entry_count,
                          <<FUint("sample_count", 4), FUint("group_description_index", 4)>>,
                          <<>>)
             IN  IF r.st # "ok" THEN r
                 ELSE Ok([grouping_type |-> h.val.grouping_type, entries |-> r.val], r.rest)

EditListBoxDecode(input) ==
    LET h == ReadFields(input, <<FUint("version", 1), FSkip(3), FUint("entry_count", 4)>>,
                        NoFields)
    IN  IF h.st # "ok" THEN h
        ELSE IF h.val.entry_count = 0 THEN Ok(<<>>, h.rest)
        ELSE IF h.val.version \notin {0, 1} THEN Panicked
        ELSE ReadEntries(h.rest, h.val.entry_count,
                 (IF h.val.version = 0
                  THEN <<FWide32("segment_duration"), FWide32("media_time")>>
                  ELSE <<FWide("segment_duration"), FWide("media_time")>>)
                 \o <<FUint("media_rate", 4)>>,
                 <<>>)

\* a variant that reads the location when flag bit 0 is set
DataEntryUrlBoxDecodeFlagSet(input) ==
    LET h == ReadFields(input, <<FAssert(1, 0), FUint("flags", 3)>>, NoFields)
    IN  IF h.st # "ok" THEN h
        ELSE IF h.val.flags % 2 # 0
        THEN LET l == StringDecode(h.rest)
             IN  IF l.st # "ok" THEN l ELSE Ok([location |-> Some(l.val)], l.rest)
        ELSE Ok([location |-> None], h.rest)

DataEntryUrlBoxDecode(input) ==
    LET h == ReadFields(input, <<FAssert(1, 0), FUint("flags", 3)>>, NoFields)
    IN  IF h.st # "ok" THEN h
        ELSE IF h.val.flags % 2 = 0
        THEN LET l == StringDecode(h.rest)
             IN  IF l.st # "ok" THEN l ELSE Ok([location |-> Some(l.val)], l.rest)
        ELSE Ok([location |-> None], h.rest)

DataEntryUrnBoxDecode(input) ==
    LET h == ReadFields(input, <<FAssert(1, 0), FSkip(3)>>, NoFields)
    IN  IF h.st # "ok" THEN h
        ELSE LET n == StringDecode(h.rest)
             IN  IF n.st # "ok" THEN n
                 ELSE LET l == StringDecode(n.rest)
                      IN  IF l.st # "ok" THEN l
                          ELSE Ok([name |-> n.val, location |-> l.val], l.rest)

RECURSIVE DecodeDataEntries(_, _, _)
\* the loop of DataReferenceBox::decode; an entry of another type is dropped
DecodeDataEntries(input, count, entries) ==
    IF count = 0 THEN Ok(entries, input)
    ELSE LET h == ReadFields(input, <<FUint("size", 4), FBytes("type", 4)>>, NoFields)
         IN  IF h.st # "ok" THEN h
             ELSE IF SplitPanics(h.val.size, h.rest) THEN Panicked
             ELSE LET data == SubSeq(h.rest, 1, h.val.size - 8)
                      remaining_data == SubSeq(h.rest, h.val.size - 8 + 1, Len(h.rest))
                      e == CASE h.val.type = T_url -> DataEntryUrlBoxDecode(data)
                             [] h.val.type = T_urn -> DataEntryUrnBoxDecode(data)
                             [] OTHER -> Ok(<<>>, data)
                  IN  IF e.st # "ok" THEN e
                      ELSE DecodeDataEntries(remaining_data, count - 1,
                               CASE h.val.type = T_url ->
                                        Append(entries, [variant |-> "Url", v |-> e.val])
                                 [] h.val.type = T_urn ->
                                        Append(entries, [variant |-> "Urn", v |-> e.val])
                                 [] OTHER -> entries)

DataReferenceBoxDecode(input) ==
    LET h == ReadFields(input, <<FAssert(1, 0), FSkip(3), FUint("entry_count", 4)>>, NoFields)
    IN  IF h.st # "ok" THEN h ELSE DecodeDataEntries(h.rest, h.val.entry_count, <<>>)

\* match size { 0 => 0, 4 => read_u32 as u64, 8 => read_u64, _ => todo!() }
ReadSized(input, size) ==
    CASE size = 0 -> Ok(W64(0), input)
      [] size = 4 -> IF Len(input) < 4 THEN ErrIo
                     ELSE Ok(WideFromBytes(Zeros(4) \o SubSeq(input, 1, 4)),
                             SubSeq(input, 5, Len(input)))
      [] size = 8 -> IF Len(input) < 8 THEN ErrIo
                     ELSE Ok(WideFromBytes(SubSeq(input, 1, 8)), SubSeq(input, 9, Len(input)))
      [] OTHER -> Panicked

RECURSIVE DecodeExtents(_, _, _, _)
DecodeExtents(input, count, offset_and_length_size, extents) ==
    IF count = 0 THEN Ok(extents, input)
    ELSE LET o == ReadSized(input, offset_and_length_size % 16)
         IN  IF o.st # "ok" THEN o
             ELSE LET l == ReadSized(o.rest, (offset_and_length_size \div 16) % 16)
                  IN  IF l.st # "ok" THEN l
                      ELSE DecodeExtents(l.rest, count - 1, offset_and_length_size,
                               Append(extents, [extent_offset |-> o.val,
                                                extent_length |-> l.val]))

RECURSIVE DecodeItems(_, _, _, _, _)
DecodeItems(input, count, offset_and_length_size, base_offset_size, items) ==
    IF count = 0 THEN Ok(items, input)
    ELSE LET h == ReadFields(input, <<FUint("item_id", 2), FUint("data_reference_index", 2)>>,
                             NoFields)
         IN  IF h.st # "ok" THEN h
             ELSE LET b == ReadSized(h.rest, base_offset_size % 16)
                  IN  IF b.st # "ok" THEN b
                      ELSE IF Len(b.rest) < 2 THEN ErrIo
                      ELSE LET x == DecodeExtents(SubSeq(b.rest, 3, Len(b.rest)),
                                        BigEndian(SubSeq(b.rest, 1, 2)),
                                        offset_and_length_size, <<>>)
                           IN  IF x.st # "ok" THEN x
                               ELSE DecodeItems(x.rest, count - 1, offset_and_length_size,
                                        base_offset_size,
                                        Append(items,
                                            [item_id |-> h.val.item_id,
                                             data_reference_index |-> h.val.data_reference_index,
                                             base_offset |-> b.val,
                                             extents |-> x.val]))

ItemLocationBoxDecode(input) ==
    LET h == ReadFields(input,
                 <<FAssert(1, 0), FSkip(3), FUint("offset_and_length_size", 1),
                   FUint("base_offset_size", 1), FUint("item_count", 2)>>, NoFields)
    IN  IF h.st # "ok" THEN h
        ELSE DecodeItems(h.rest, h.val.item_count, h.val.offset_and_length_size,
                         h.val.base_offset_size, <<>>)

(* decode_boxes!: the children of a parent are declared, in order, with a  *)
(* quantifier, the FourCC of the child and the local that receives it.     *)
Required(type, name) == [quantifier |-> "required", type |-> type, name |-> name]
Optional(type, name) == [quantifier |-> "optional", type |-> type, name |-> name]
Multiple(type, name) == [quantifier |-> "multiple", type |-> type, name |-> name]

RECURSIVE DecodeBody(_, _)

\* a variant that takes a second occurrence in place of the first
DecodeBoxKeepLast(data, entry, slots) ==
    LET r == DecodeBody(entry.type, data)
    IN  IF r.st # "ok" THEN r
        ELSE IF entry.quantifier = "multiple"
        THEN Ok([slots EXCEPT ![entry.name] = Append(@, r.val)], <<>>)
        ELSE Ok([slots EXCEPT ![entry.name] = Some(r.val)], <<>>)

\* decode_box!: the locals after the child in data is decoded into its local
DecodeBox(data, entry, slots) ==
    IF entry.quantifier = "multiple"
    THEN LET r == DecodeBody(entry.type, data)
         IN  IF r.st # "ok" THEN r
             ELSE Ok([slots EXCEPT ![entry.name] = Append(@, r.val)], <<>>)
    ELSE IF IsSome(slots[entry.name])
    THEN ErrQuantity(entry.type, 2, 1)
    ELSE LET r == DecodeBody(entry.type, data)
         IN  IF r.st # "ok" THEN r
             ELSE Ok([slots EXCEPT ![entry.name] = Some(r.val)], <<>>)

\* unwrap_box!, for every declared child in order: a required child that is
\* absent is an error; the locals of the others stay as they are
UnwrapBoxes(table, slots) ==
    IF \E k \in 1..Len(table) : table[k].quantifier = "required" /\ ~IsSome(slots[table[k].name])
    THEN LET k == CHOOSE k \in 1..Len(table) :
                      /\ table[k].quantifier = "required" /\ ~IsSome(slots[table[k].name])
                      /\ \A j \in 1..(k - 1) :
                            ~(table[j].quantifier = "required" /\ ~IsSome(slots[table[j].name]))
         IN  ErrQuantity(table[k].type, 0, 1)
    ELSE Ok([n \in DOMAIN slots |->
                IF \E k \in 1..Len(table) : table[k].name = n /\ table[k].quantifier = "required"
                THEN Unwrap(slots[n]) ELSE slots[n]], <<>>)

\* the declaration a child of this type is matched by, or 0
Declared(table, type) ==
    IF \E k \in 1..Len(table) : table[k].type = type
    THEN CHOOSE k \in 1..Len(table) :
             table[k].type = type /\ \A j \in 1..(k - 1) : table[j].type # type
    ELSE 0

RECURSIVE DecodeBoxesLoopBodyKept(_, _, _)
\* the loop when the body of a child of an undeclared type is left in the input
DecodeBoxesLoopBodyKept(input, table, slots) ==
    IF input = <<>> THEN UnwrapBoxes(table, slots)
    ELSE LET h == ReadFields(input, <<FUint("size", 4), FBytes("type", 4)>>, NoFields)
         IN  IF h.st # "ok" THEN h
             ELSE IF SplitPanics(h.val.size, h.rest) THEN Panicked
             ELSE LET data == SubSeq(h.rest, 1, h.val.size - 8)
                      remaining_data == SubSeq(h.rest, h.val.size - 8 + 1, Len(h.rest))
                      k == Declared(table, h.val.type)
                  IN  IF k = 0 THEN DecodeBoxesLoopBodyKept(h.rest, table, slots)
                      ELSE LET r == DecodeBox(data, table[k], slots)
                           IN  IF r.st # "ok" THEN r
                               ELSE DecodeBoxesLoopBodyKept(remaining_data, table, r.val)

RECURSIVE DecodeBoxesLoop(_, _, _)
\* while !input.is_empty() { .. } followed by the unwrap_box! of every child
DecodeBoxesLoop(input, table, slots) ==
    IF input = <<>> THEN UnwrapBoxes(table, slots)
    ELSE LET h == ReadFields(input, <<FUint("size", 4), FBytes("type", 4)>>, NoFields)
         IN  IF h.st # "ok" THEN h
             ELSE IF SplitPanics(h.val.size, h.rest) THEN Panicked
             ELSE LET data == SubSeq(h.rest, 1, h.val.size - 8)
                      remaining_data == SubSeq(h.rest, h.val.size - 8 + 1, Len(h.rest))
                      k == Declared(table, h.val.type)
                  IN  IF k = 0 THEN DecodeBoxesLoop(remaining_data, table, slots)
                      ELSE LET r == DecodeBox(data, table[k], slots)
                           IN  IF r.st # "ok" THEN r
                               ELSE DecodeBoxesLoop(remaining_data, table, r.val)

\* decode_boxes! { input, <table> } with every local empty at first
DecodeBoxes(input, table) ==
    DecodeBoxesLoop(input, table, [n \in {table[k].name : k \in 1..Len(table)} |-> <<>>])

FileChildren ==
    <<Required(T_ftyp, "file_type"), Optional(T_moov, "movie"),
      Multiple(T_mdat, "media_data"), Optional(T_meta, "meta")>>

MovieBoxChildren == <<Required(T_mvhd, "header"), Multiple(T_trak, "tracks")>>

MovieBoxDecode(input) == DecodeBoxes(input, MovieBoxChildren)

TrackBoxChildren ==
    <<Required(T_tkhd, "header"), Required(T_mdia, "media"), Optional(T_edts, "edit")>>

TrackBoxDecode(input) == DecodeBoxes(input, TrackBoxChildren)

MediaBoxChildren ==
    <<Required(T_mdhd, "header"), Required(T_hdlr, "handler"), Required(T_minf, "information")>>

MediaBoxDecode(input) == DecodeBoxes(input, MediaBoxChildren)

MediaInformationBoxChildren ==
    <<Optional(T_vmhd, "video_header"), Optional(T_smhd, "sound_header"),
      Required(T_dinf, "data_information"), Required(T_stbl, "sample_table")>>

MediaInformationBoxDecode(input) ==
    LET r == DecodeBoxes(input, MediaInformationBoxChildren)
    IN  IF r.st # "ok" THEN r
        ELSE IF IsSome(r.val.video_header)
        THEN Ok([header |-> [variant |-> "Video", v |-> Unwrap(r.val.video_header)],
                 data_information |-> r.val.data_information,
                 sample_table |-> r.val.sample_table], r.rest)
        ELSE IF IsSome(r.val.sound_header)
        THEN Ok([header |-> [variant |-> "Sound", v |-> Unwrap(r.val.sound_header)],
                 data_information |-> r.val.data_information,
                 sample_table |-> r.val.sample_table], r.rest)
        ELSE Panicked       \* todo!()

SampleTableBoxChildren ==
    <<Required(T_stsd, "description"), Required(T_stts, "time_to_sample"),
      Optional(T_stss, "sync_sample"), Required(T_stsz, "sample_size"),
      Required(T_stsc, "sample_to_chunk"), Required(T_stco, "chunk_offset"),
      Optional(T_sbgp, "sample_to_group")>>

SampleTableBoxDecode(input) == DecodeBoxes(input, SampleTableBoxChildren)

EditBoxChildren == <<Optional(T_elst, "edit_list")>>

EditBoxDecode(input) == DecodeBoxes(input, EditBoxChildren)

DataInformationBoxChildren == <<Required(T_dref, "reference")>>

DataInformationBoxDecode(input) == DecodeBoxes(input, DataInformationBoxChildren)

MetaBoxChildren == <<Required(T_hdlr, "handler"), Optional(T_iloc, "item_location")>>

MetaBoxDecode(input) ==
    LET h == ReadFields(input, <<FAssert(1, 0), FSkip(3)>>, NoFields)
    IN  IF h.st # "ok" THEN h ELSE DecodeBoxes(h.rest, MetaBoxChildren)

\* Decode::decode(&mut data) for the local a child of this type is declared with
DecodeBody(type, data) ==
    CASE type = T_File -> DecodeBoxes(data, FileChildren)
      [] type = T_ftyp -> FileTypeBoxDecode(data)
      [] type = T_moov -> MovieBoxDecode(data)
      [] type = T_mdat -> MediaDataBoxDecode(data)
      [] type = T_meta -> MetaBoxDecode(data)
      [] type = T_mvhd -> MovieHeaderBoxDecode(data)
      [] type = T_trak -> TrackBoxDecode(data)
      [] type = T_tkhd -> TrackHeaderBoxDecode(data)
      [] type = T_mdia -> MediaBoxDecode(data)
      [] type = T_edts -> EditBoxDecode(data)
      [] type = T_mdhd -> MediaHeaderBoxDecode(data)
      [] type = T_hdlr -> HandlerBoxDecode(data)
      [] type = T_minf -> MediaInformationBoxDecode(data)
      [] type = T_vmhd -> VideoMediaHeaderBoxDecode(data)
      [] type = T_smhd -> SoundMediaHeaderBoxDecode(data)
      [] type = T_dinf -> DataInformationBoxDecode(data)
      [] type = T_stbl -> SampleTableBoxDecode(data)
      [] type = T_dref -> DataReferenceBoxDecode(data)
      [] type = T_stsd -> SampleDescriptionBoxDecode(data)
      [] type = T_stts -> TimeToSampleBoxDecode(data)
      [] type = T_stss -> SyncSampleBoxDecode(data)
      [] type = T_stsz -> SampleSizeBoxDecode(data)
      [] type = T_stsc -> SampleToChunkBoxDecode(data)
      [] type = T_stco -> ChunkOffsetBoxDecode(data)
      [] type = T_sbgp -> SampleToGroupBoxDecode(data)
      [] type = T_elst -> EditListBoxDecode(data)
      [] type = T_iloc -> ItemLocationBoxDecode(data)

\* impl Decode for File
FileDecode(input) == DecodeBody(T_File, input)

----------------------------------------------------------------------------
(* The incremental writer (src/src/writer.rs) *)

\* if self.chunk_duration >= 1000
FlushThreshold == 1000
\* MovieHeaderBox.timescale and MediaHeaderBox.timescale set by the writer
WriterTimescale == 1000

\* A Track before its first sample: every table empty, every counter zero.
FreshTrack ==
    [total_duration |-> W32(0),
     sample_times |-> <<>>, sample_syncs |-> <<>>, sample_sizes |-> <<>>,
     chunk_buffer |-> <<>>, chunk_sample_count |-> 0, chunk_duration |-> 0,
     chunk_samples |-> <<>>, chunk_offsets |-> <<>>]

\* a variant that starts a run for every sample
AddSampleTimeNoMerge(t, duration) ==
    [t EXCEPT !.sample_times = Append(@, [sample_count |-> 1, sample_delta |-> duration])]

\* the sample-to-chunk run (first_chunk, samples_per_chunk) of the writer
Run(first_chunk, samples_per_chunk) ==
    [first_chunk |-> first_chunk, samples_per_chunk |-> samples_per_chunk,
     sample_description_index |-> 1]

\* a variant that merges the sample into the first run of its duration
AddSampleTimeMergeAnywhere(t, duration) ==
    LET ks == {k \in 1..Len(t.sample_times) : t.sample_times[k].sample_delta = duration}
    IN  IF ks # {}
        THEN [t EXCEPT !.sample_times[CHOOSE k \in ks : \A l \in ks : k <= l].sample_count = @ + 1]
        ELSE [t EXCEPT !.sample_times = Append(@, [sample_count |-> 1, sample_delta |-> duration])]

\* Track::add_sample_time
AddSampleTime(t, duration) ==
    IF t.sample_times # <<>> /\ t.sample_times[Len(t.sample_times)].sample_delta = duration
    THEN [t EXCEPT !.sample_times[Len(t.sample_times)].sample_count = @ + 1]
    ELSE [t EXCEPT !.sample_times = Append(@, [sample_count |-> 1, sample_delta |-> duration])]

\* a variant that starts a run for the first chunk only
AddChunkSamplesFirstRunOnly(t) ==
    IF t.chunk_samples # <<>>
    THEN t
    ELSE [t EXCEPT !.chunk_samples =
             Append(@, [first_chunk |-> Len(t.chunk_offsets) + 1,
                        samples_per_chunk |-> t.chunk_sample_count,
                        sample_description_index |-> 1])]

\* a variant that numbers the chunks from zero
AddChunkSamplesZeroBased(t) ==
    IF t.chunk_samples # <<>>
       /\ t.chunk_samples[Len(t.chunk_samples)].samples_per_chunk = t.chunk_sample_count
    THEN t
    ELSE LET chunk_id == Len(t.chunk_offsets)
         IN  [t EXCEPT !.chunk_samples =
                 Append(@, [first_chunk |-> chunk_id,
                            samples_per_chunk |-> t.chunk_sample_count,
                            sample_description_index |-> 1])]

\* Track::add_chunk_samples
AddChunkSamples(t) ==
    IF t.chunk_samples # <<>>
       /\ t.chunk_samples[Len(t.chunk_samples)].samples_per_chunk = t.chunk_sample_count
    THEN t
    ELSE LET chunk_id == Len(t.chunk_offsets) + 1
         IN  [t EXCEPT !.chunk_samples =
                 Append(@, [first_chunk |-> chunk_id,
                            samples_per_chunk |-> t.chunk_sample_count,
                            sample_description_index |-> 1])]

\* a variant that records the offset and leaves the chunk's bytes unwritten
TrackWriteChunkNoWrite(t, out) ==
    LET chunk_offset == out.pos
        t1 == AddChunkSamples(t)
        t2 == [t1 EXCEPT !.chunk_offsets = Append(@, chunk_offset)]
    IN  [track |-> [t2 EXCEPT !.chunk_buffer = <<>>,
                              !.chunk_sample_count = 0,
                              !.chunk_duration = 0],
         out |-> out]

\* a variant that records the position reached after the chunk's bytes
TrackWriteChunkOffsetAfter(t, out) ==
    LET o1 == WriteAll(out, t.chunk_buffer)
        chunk_offset == o1.pos
        t1 == AddChunkSamples(t)
        t2 == [t1 EXCEPT !.chunk_offsets = Append(@, chunk_offset)]
    IN  [track |-> [t2 EXCEPT !.chunk_buffer = <<>>,
                              !.chunk_sample_count = 0,
                              !.chunk_duration = 0],
         out |-> o1]

\* Track::write_chunk: the track and the sink afterwards
TrackWriteChunk(t, out) ==
    LET chunk_offset == out.pos     \* `as u32`: positions stay below 2^31 here
        o1 == WriteAll(out, t.chunk_buffer)
        t1 == AddChunkSamples(t)
        t2 == [t1 EXCEPT !.chunk_offsets = Append(@, chunk_offset)]
    IN  [track |-> [t2 EXCEPT !.chunk_buffer = <<>>,
                              !.chunk_sample_count = 0,
                              !.chunk_duration = 0],
         out |-> o1]

\* a variant that numbers samples from zero
TrackWriteSampleZeroBased(t, out, duration, sync, data) ==
    LET t0 == [t EXCEPT !.total_duration = WideAdd32(@, duration).sum]
        t1 == AddSampleTime(t0, duration)
        sample_id == Len(t1.sample_sizes)
        t2 == IF sync THEN [t1 EXCEPT !.sample_syncs = Append(@, sample_id)] ELSE t1
        t3 == [t2 EXCEPT !.sample_sizes = Append(@, Len(data))]
        t4 == [t3 EXCEPT !.chunk_buffer = @ \o data,
                         !.chunk_sample_count = @ + 1,
                         !.chunk_duration = @ + duration]
    IN  IF t4.chunk_duration >= FlushThreshold
        THEN TrackWriteChunk(t4, out)
        ELSE [track |-> t4, out |-> out]

\* a variant that tests the threshold before the sample's duration is added
TrackWriteSampleTestFirst(t, out, duration, sync, data) ==
    LET t0 == [t EXCEPT !.total_duration = WideAdd32(@, duration).sum]
        t1 == AddSampleTime(t0, duration)
        sample_id == Len(t1.sample_sizes) + 1
        t2 == IF sync THEN [t1 EXCEPT !.sample_syncs = Append(@, sample_id)] ELSE t1
        t3 == [t2 EXCEPT !.sample_sizes = Append(@, Len(data))]
        t4 == [t3 EXCEPT !.chunk_buffer = @ \o data,
                         !.chunk_sample_count = @ + 1,
                         !.chunk_duration = @ + duration]
    IN  IF t.chunk_duration >= FlushThreshold
        THEN TrackWriteChunk(t4, out)
        ELSE [track |-> t4, out |-> out]

\* a variant that flushes only above the threshold
TrackWriteSampleAboveThreshold(t, out, duration, sync, data) ==
    LET t0 == [t EXCEPT !.total_duration = WideAdd32(@, duration).sum]
        t1 == AddSampleTime(t0, duration)
        sample_id == Len(t1.sample_sizes) + 1
        t2 == IF sync THEN [t1 EXCEPT !.sample_syncs = Append(@, sample_id)] ELSE t1
        t3 == [t2 EXCEPT !.sample_sizes = Append(@, Len(data))]
        t4 == [t3 EXCEPT !.chunk_buffer = @ \o data,
                         !.chunk_sample_count = @ + 1,
                         !.chunk_duration = @ + duration]
    IN  IF t4.chunk_duration > FlushThreshold
        THEN TrackWriteChunk(t4, out)
        ELSE [track |-> t4, out |-> out]

\* Track::write_sample, past the additions that may overflow
TrackWriteSample(t, out, duration, sync, data) ==
    LET t0 == [t EXCEPT !.total_duration = WideAdd32(@, duration).sum]
        t1 == AddSampleTime(t0, duration)
        sample_id == Len(t1.sample_sizes) + 1
        t2 == IF sync THEN [t1 EXCEPT !.sample_syncs = Append(@, sample_id)] ELSE t1
        t3 == [t2 EXCEPT !.sample_sizes = Append(@, Len(data))]
        t4 == [t3 EXCEPT !.chunk_buffer = @ \o data,
                         !.chunk_sample_count = @ + 1,
                         !.chunk_duration = @ + duration]
    IN  IF t4.chunk_duration >= FlushThreshold
        THEN TrackWriteChunk(t4, out)
        ELSE [track |-> t4, out |-> out]

\* Track::into_box
TrackIntoBox(t) ==
    [header |-> [TrackHeaderBoxDefault EXCEPT
                    !.track_id = 1,
                    !.duration = WideAsU64(t.total_duration),
                    !.width = 1920 * Pow2_16,
                    !.height = 1080 * Pow2_16],
     media |->
        [header |-> [MediaHeaderBoxDefault EXCEPT
                        !.timescale = WriterTimescale,
                        !.duration = WideAsU64(t.total_duration)],
         handler |-> [type |-> FourCC(T_vide), name |-> S_VideoHandler],
         information |->
            [header |-> [variant |-> "Video", v |-> VideoMediaHeaderBoxDefault],
             data_information |-> DataInformationBoxDefault,
             sample_table |->
                [description |->
                    [variant |-> "AV1",
                     v |-> [base |-> [data_reference_index |-> 1,
                                      width |-> 1920,
                                      height |-> 1080,
                                      horizresolution |-> 72 * Pow2_16,
                                      vertresolution |-> 72 * Pow2_16,
                                      frame_count |-> 1,
                                      compressorname |-> Zeros(32),
                                      depth |-> 24]]],
                 time_to_sample |-> t.sample_times,
                 sync_sample |-> Some(t.sample_syncs),
                 sample_size |-> [variant |-> "PerSample", samples |-> t.sample_sizes],
                 sample_to_chunk |-> t.chunk_samples,
                 chunk_offset |-> t.chunk_offsets,
                 sample_to_group |-> None]]],
     edit |-> None]

RECURSIVE FlushAll(_, _, _)
\* for track in &mut self.tracks { track.write_chunk(&mut self.output) }
\* ts: the tracks still to flush; done: those flushed; the result has every track flushed
FlushAll(ts, done, out) ==
    IF ts = <<>> THEN [tracks |-> done, out |-> out]
    ELSE LET r == TrackWriteChunk(Head(ts), out)
         IN  FlushAll(Tail(ts), Append(done, r.track), r.out)

\* the FileTypeBox Writer::new writes
WriterFileType ==
    [major_brand |-> FourCC(T_isom), minor_version |-> 512,
     compatible_brands |-> <<FourCC(T_isom), FourCC(T_av01), FourCC(T_iso2), FourCC(T_mp41)>>]

\* Writer::new up to the mdat header: ftyp and an empty free box
WriterNewBegin ==
    Encode(EmptySink,
           FileTypeBoxEncode(WriterFileType) \o <<OpWrite(U32Bytes(8)), OpWrite(T_free)>>).pos

\* Writer::new: the sink once encode_box_header has opened the mdat box
WriterNewOutput ==
    EncodeBoxHeader(
        Encode(EmptySink,
               FileTypeBoxEncode(WriterFileType) \o <<OpWrite(U32Bytes(8)), OpWrite(T_free)>>),
        T_mdat)

NoMovie == None

NoCodec ==
    /\ codecKind = "none"
    /\ codecValue = <<>>
    /\ codecChildren = <<>>
    /\ codecInput = <<>>
    /\ codecResult = [st |-> "none"]
    /\ codecOutput = <<>>
    /\ sizedOutput = <<>>

\* A Writer with n tracks over an empty seekable sink.  Writer::new leaves the
\* track vector empty (n = 0); the states with n > 0 are those of a Writer
\* whose vector holds n tracks that have not yet received a sample.
WriterWith(n) ==
    /\ output = WriterNewOutput
    /\ media_data_box_begin = WriterNewBegin
    /\ tracks = [i \in 1..n |-> FreshTrack]
    /\ written = [i \in 1..n |-> <<>>]
    /\ movie = NoMovie
    /\ phase = "open"

RECURSIVE SumLen(_)
SumLen(seqs) == IF seqs = <<>> THEN 0 ELSE Len(Head(seqs)) + SumLen(Tail(seqs))

\* the number of samples written so far, over all tracks
TotalWritten == SumLen(written)

\* Writer::sample(track, duration, sync, data), returning normally
Sample(track, duration, sync, data) ==
    /\ phase = "open"
    /\ track < Len(tracks)
    /\ LET t == tracks[track + 1]
           r == TrackWriteSample(t, output, duration, sync, data)
       IN  /\ tracks' = [tracks EXCEPT ![track + 1] = r.track]
           /\ output' = r.out
           /\ written' = [written EXCEPT ![track + 1] =
                             Append(@, [duration |-> duration, sync |-> sync, data |-> data])]
    /\ UNCHANGED <<media_data_box_begin, movie, phase>>
    /\ UNCHANGED codecVars

\* Writer::sample panicking: self.tracks[track as usize] out of bounds, or
\* total_duration += duration overflowing in a build that checks overflow
SamplePanics(track, duration) ==
    /\ phase = "open"
    /\ \/ track >= Len(tracks)
       \/ /\ track < Len(tracks)
          /\ WideAdd32(tracks[track + 1].total_duration, duration).overflow
    /\ phase' = "panicked"
    /\ UNCHANGED <<output, media_data_box_begin, tracks, written, movie>>
    /\ UNCHANGED codecVars

\* a variant that closes the media-data box before the tracks are flushed
FinishPatchesBeforeFlush ==
    /\ phase = "open"
    /\ LET o0 == UpdateBoxHeader(output, media_data_box_begin)
           f == FlushAll(tracks, <<>>, o0)
           m == [header |-> [MovieHeaderBoxDefault EXCEPT
                                !.timescale = WriterTimescale,
                                !.next_track_id = Len(tracks) + 1],
                 tracks |-> [i \in 1..Len(f.tracks) |-> TrackIntoBox(f.tracks[i])]]
       IN  /\ output' = Encode(f.out, MovieBoxEncode(m))
           /\ movie' = Some(m)
    /\ tracks' = <<>>
    /\ phase' = "finished"
    /\ UNCHANGED <<media_data_box_begin, written>>
    /\ UNCHANGED codecVars

\* Writer::finish
Finish ==
    /\ phase = "open"
    /\ LET f == FlushAll(tracks, <<>>, output)
           o1 == UpdateBoxHeader(f.out, media_data_box_begin)
           m == [header |-> [MovieHeaderBoxDefault EXCEPT
                                !.timescale = WriterTimescale,
                                !.next_track_id = Len(tracks) + 1],
                 tracks |-> [i \in 1..Len(f.tracks) |-> TrackIntoBox(f.tracks[i])]]
       IN  /\ output' = Encode(o1, MovieBoxEncode(m))
           /\ movie' = Some(m)
    /\ tracks' = <<>>
    /\ phase' = "finished"
    /\ UNCHANGED <<media_data_box_begin, written>>
    /\ UNCHANGED codecVars

\* the finished output read back: File::decode(&mut &bytes[..])
ReadBack ==
    /\ phase = "finished"
    /\ phase' = "decoded"
    /\ codecKind' = "File"
    /\ codecInput' = output.buf
    /\ codecResult' = FileDecode(output.buf)
    /\ UNCHANGED <<output, media_data_box_begin, tracks, written, movie>>
    /\ UNCHANGED <<codecValue, codecChildren, codecOutput, sizedOutput>>

\* the decoded File written again: file.encode(&mut Cursor::new(Vec::new()))
ReEncode ==
    /\ phase = "decoded"
    /\ codecResult.st = "ok"
    /\ phase' = "reencoded"
    /\ codecOutput' = EncodeToVec(FileEncode(codecResult.val))
    /\ UNCHANGED <<output, media_data_box_begin, tracks, written, movie>>
    /\ UNCHANGED <<codecKind, codecValue, codecChildren, codecInput, codecResult, sizedOutput>>

(* Inputs of the writer's caller *)
Durations == {500, 1000}
Payloads == {<<>>, <<170>>, <<187, 204>>}

Init == (\E n \in 0..MaxTracks : WriterWith(n)) /\ NoCodec

SampleAny ==
    \E track \in 0..(MaxTracks - 1), duration \in Durations, sync \in BOOLEAN, data \in Payloads :
        /\ TotalWritten < MaxSamples
        /\ Sample(track, duration, sync, data)

SampleFails ==
    \E track \in 0..(MaxTracks - 1), duration \in Durations :
        /\ TotalWritten < MaxSamples
        /\ SamplePanics(track, duration)

Next == SampleAny \/ SampleFails \/ Finish \/ ReadBack \/ ReEncode

Spec == Init /\ [][Next]_vars

(* One track receiving samples of two durations *)
RunDurations == {33, 50}

InitRuns == WriterWith(1) /\ NoCodec

SampleRuns ==
    \E duration \in RunDurations, sync \in BOOLEAN :
        /\ TotalWritten < MaxRunSamples
        /\ Sample(0, duration, sync, <<170>>)

NextRuns == SampleRuns \/ Finish

SpecRuns == InitRuns /\ [][NextRuns]_vars

(* One track receiving samples of duration 33 *)
InitChunking == WriterWith(1) /\ NoCodec

SampleChunking ==
    /\ TotalWritten < MaxChunkSamples
    /\ Sample(0, 33, TRUE, <<170>>)

NextChunking == SampleChunking \/ Finish

SpecChunking == InitChunking /\ [][NextChunking]_vars

(* One track receiving samples whose durations sum to more than a u32 holds. *)
(* Every duration is at least 1000, so that each sample is flushed as it is  *)
(* written and chunk_duration is 0 before the next one.                      *)
LongDurations == {1000, 2^30, 2^30 + (2^30 - 1)}

InitLongDurations == WriterWith(1) /\ NoCodec

SampleLong ==
    \E duration \in LongDurations, sync \in BOOLEAN, data \in Payloads :
        /\ TotalWritten < MaxLongSamples
        /\ Sample(0, duration, sync, data)

\* the sample() call in a build that checks arithmetic overflow
SampleLongFails ==
    \E duration \in LongDurations :
        /\ TotalWritten < MaxLongSamples
        /\ SamplePanics(0, duration)

NextLongDurations == SampleLong \/ SampleLongFails \/ Finish

SpecLongDurations == InitLongDurations /\ [][NextLongDurations]_vars

----------------------------------------------------------------------------
(* Encoding a value of one box type and decoding the bytes again *)

\* the operations of encoding value as a box of the given kind
EncodeOf(kind, value) ==
    CASE kind = "File" -> FileEncode(value)
      [] kind = "ftyp" -> FileTypeBoxEncode(value)
      [] kind = "mdat" -> MediaDataBoxEncode(value)
      [] kind = "moov" -> MovieBoxEncode(value)
      [] kind = "mvhd" -> MovieHeaderBoxEncode(value)
      [] kind = "trak" -> TrackBoxEncode(value)
      [] kind = "tkhd" -> TrackHeaderBoxEncode(value)
      [] kind = "mdia" -> MediaBoxEncode(value)
      [] kind = "mdhd" -> MediaHeaderBoxEncode(value)
      [] kind = "hdlr" -> HandlerBoxEncode(value)
      [] kind = "minf" -> MediaInformationBoxEncode(value)
      [] kind = "vmhd" -> VideoMediaHeaderBoxEncode(value)
      [] kind = "smhd" -> SoundMediaHeaderBoxEncode(value)
      [] kind = "dinf" -> DataInformationBoxEncode(value)
      [] kind = "dref" -> DataReferenceBoxEncode(value)
      [] kind = "stbl" -> SampleTableBoxEncode(value)
      [] kind = "stsd" -> SampleDescriptionBoxEncode(value)
      [] kind = "stts" -> TimeToSampleBoxEncode(value)
      [] kind = "stss" -> SyncSampleBoxEncode(value)
      [] kind = "stsz" -> SampleSizeBoxEncode(value)
      [] kind = "stsc" -> SampleToChunkBoxEncode(value)
      [] kind = "stco" -> ChunkOffsetBoxEncode(value)
      [] kind = "sbgp" -> SampleToGroupBoxEncode(value)
      [] kind = "edts" -> EditBoxEncode(value)
      [] kind = "elst" -> EditListBoxEncode(value)
      [] kind = "meta" -> MetaBoxEncode(value)
      [] kind = "iloc" -> ItemLocationBoxEncode(value)

\* the FourCC of a kind of box
TagOf(kind) ==
    CASE kind = "ftyp" -> T_ftyp [] kind = "mdat" -> T_mdat [] kind = "moov" -> T_moov
      [] kind = "mvhd" -> T_mvhd [] kind = "trak" -> T_trak [] kind = "tkhd" -> T_tkhd
      [] kind = "mdia" -> T_mdia [] kind = "mdhd" -> T_mdhd [] kind = "hdlr" -> T_hdlr
      [] kind = "minf" -> T_minf [] kind = "vmhd" -> T_vmhd [] kind = "smhd" -> T_smhd
      [] kind = "dinf" -> T_dinf [] kind = "dref" -> T_dref [] kind = "stbl" -> T_stbl
      [] kind = "stsd" -> T_stsd [] kind = "stts" -> T_stts [] kind = "stss" -> T_stss
      [] kind = "stsz" -> T_stsz [] kind = "stsc" -> T_stsc [] kind = "stco" -> T_stco
      [] kind = "sbgp" -> T_sbgp [] kind = "edts" -> T_edts [] kind = "elst" -> T_elst
      [] kind = "meta" -> T_meta [] kind = "iloc" -> T_iloc

\* The bytes of one box decoded as decode_boxes! does when it meets the box:
\* size and type read, the body split off and handed to the type's Decode;
\* a File is decoded as a whole.
DecodeOf(kind, bytes) ==
    IF kind = "File" THEN FileDecode(bytes)
    ELSE LET h == ReadFields(bytes, <<FUint("size", 4), FBytes("type", 4)>>, NoFields)
         IN  IF h.st # "ok" THEN h
             ELSE IF SplitPanics(h.val.size, h.rest) THEN Panicked
             ELSE DecodeBody(h.val.type, SubSeq(h.rest, 1, h.val.size - 8))

\* 2^32 and 2^32 + 5 as u64
Wide2Pow32 == <<0, 1, 0, 0>>
Wide2Pow32Plus5 == <<0, 1, 0, 5>>

VisualEntry ==
    [data_reference_index |-> 1, width |-> 1920, height |-> 1080,
     horizresolution |-> 72 * Pow2_16, vertresolution |-> 72 * Pow2_16,
     frame_count |-> 1, compressorname |-> Zeros(32), depth |-> 24]

AudioEntry ==
    [data_reference_index |-> 1, channelcount |-> 2, samplesize |-> 16,
     samplerate |-> 48000]

(* The values handed to encode, per kind of box *)
ValuesOf(kind) ==
    CASE kind = "ftyp" ->
            { [major_brand |-> FourCC(T_isom), minor_version |-> v, compatible_brands |-> b] :
                v \in {0, 512},
                b \in {<<>>, <<FourCC(T_isom)>>, <<FourCC(T_isom), FourCC(T_av01)>>} }
      [] kind = "mdat" -> {<<>>, <<1, 2, 3>>}
      [] kind = "mvhd" ->
            { [MovieHeaderBoxDefault EXCEPT !.timescale = 1000, !.duration = d,
                                            !.next_track_id = n] :
                d \in {W64(0), W64(5000), Wide2Pow32Plus5}, n \in {1, 2} }
      [] kind = "tkhd" ->
            { [TrackHeaderBoxDefault EXCEPT !.enabled = e, !.duration = d] :
                e \in BOOLEAN, d \in {W64(0), W64(5000), Wide2Pow32Plus5} }
      [] kind = "mdhd" ->
            { [MediaHeaderBoxDefault EXCEPT !.timescale = 1000, !.creation_time = d] :
                d \in {W64(0), Wide2Pow32} }
      [] kind = "hdlr" ->
            { [type |-> FourCC(T_vide), name |-> n] : n \in {<<>>, S_VideoHandler} }
      [] kind = "vmhd" ->
            { [graphicsmode |-> g, opcolor |-> <<0, 0, 0>>] : g \in {0, 64} }
      [] kind = "smhd" -> { [balance |-> b] : b \in {0, 256} }
      [] kind = "stsd" ->
            { [variant |-> "AV1", v |-> [base |-> VisualEntry]],
              [variant |-> "AVC", v |-> [base |-> VisualEntry]],
              [variant |-> "AAC", v |-> [base |-> AudioEntry]] }
      [] kind = "stts" ->
            { <<>>, <<[sample_count |-> 3, sample_delta |-> 33]>>,
              <<[sample_count |-> 3, sample_delta |-> 33],
                [sample_count |-> 2, sample_delta |-> 50]>> }
      [] kind = "stss" -> { <<>>, <<1>>, <<1, 3>> }
      [] kind = "stsz" ->
            { [variant |-> "Value", sample_size |-> 4, sample_count |-> 10],
              [variant |-> "Value", sample_size |-> 0, sample_count |-> 0],
              [variant |-> "Value", sample_size |-> 0, sample_count |-> 2],
              [variant |-> "PerSample", samples |-> <<>>],
              [variant |-> "PerSample", samples |-> <<5, 6>>] }
      [] kind = "stsc" ->
            { <<>>, <<[first_chunk |-> 1, samples_per_chunk |-> 31,
                       sample_description_index |-> 1],
                      [first_chunk |-> 2, samples_per_chunk |-> 9,
                       sample_description_index |-> 1]>> }
      [] kind = "stco" -> { <<>>, <<48>>, <<48, 79>> }
      [] kind = "sbgp" ->
            { [grouping_type |-> FourCC(T_isom), entries |-> e] :
                e \in {<<>>, <<[sample_count |-> 2, group_description_index |-> 1]>>} }
      [] kind = "elst" ->
            { <<>>,
              <<[segment_duration |-> W64(1000), media_time |-> W64(0),
                 media_rate |-> Pow2_16]>>,
              <<[segment_duration |-> Wide2Pow32, media_time |-> W64(0),
                 media_rate |-> Pow2_16]>> }
      [] kind = "edts" ->
            { [edit_list |-> None],
              [edit_list |-> Some(<<[segment_duration |-> W64(1000), media_time |-> W64(0),
                                     media_rate |-> Pow2_16]>>)] }
      [] kind = "dref" ->
            { <<>>,
              <<[variant |-> "Url", v |-> [location |-> None]]>>,
              <<[variant |-> "Url", v |-> [location |-> Some(<<97>>)]]>>,
              <<[variant |-> "Url", v |-> [location |-> Some(<<>>)]]>>,
              <<[variant |-> "Url", v |-> [location |-> Some(<<97, 0, 98>>)]]>>,
              <<[variant |-> "Url", v |-> [location |-> Some(<<97, 98>>)]],
                [variant |-> "Url", v |-> [location |-> None]]>>,
              <<[variant |-> "Urn", v |-> [name |-> <<110>>, location |-> <<>>]]>>,
              <<[variant |-> "Urn", v |-> [name |-> <<110>>, location |-> <<108>>]]>> }
      [] kind = "dinf" -> { DataInformationBoxDefault }
      [] kind = "iloc" -> { <<>> }
      [] kind = "meta" ->
            { [handler |-> [type |-> FourCC(T_vide), name |-> <<>>], item_location |-> l] :
                l \in {None, Some(<<>>)} }
      [] kind = "stbl" -> { TrackIntoBox(FreshTrack).media.information.sample_table }
      [] kind = "minf" -> { TrackIntoBox(FreshTrack).media.information }
      [] kind = "mdia" -> { TrackIntoBox(FreshTrack).media }
      [] kind = "trak" -> { TrackIntoBox(FreshTrack) }
      [] kind = "moov" ->
            { [header |-> [MovieHeaderBoxDefault EXCEPT !.timescale = 1000,
                                                        !.next_track_id = Len(t) + 1],
               tracks |-> t] : t \in {<<>>, <<TrackIntoBox(FreshTrack)>>} }
      [] kind = "File" ->
            { [file_type |-> WriterFileType, movie |-> m, media_data |-> d, meta |-> None] :
                m \in {None, Some([header |-> MovieHeaderBoxDefault, tracks |-> <<>>])},
                d \in {<<>>, <<<<1, 2, 3>>>>, <<<<>>, <<7>>>>} }

Kinds ==
    {"File", "ftyp", "mdat", "moov", "mvhd", "trak", "tkhd", "mdia", "mdhd", "hdlr",
     "minf", "vmhd", "smhd", "dinf", "dref", "stbl", "stsd", "stts", "stss", "stsz",
     "stsc", "stco", "sbgp", "edts", "elst", "meta", "iloc"}

InitCodec ==
    /\ WriterWith(0)
    /\ codecKind \in Kinds
    /\ codecValue \in ValuesOf(codecKind)
    /\ codecChildren = <<>>
    /\ codecInput = <<>>
    /\ codecResult = [st |-> "none"]
    /\ codecOutput = <<>>
    /\ sizedOutput = <<>>

\* value.encode(&mut output)
EncodeValue ==
    /\ codecOutput = <<>>
    /\ codecOutput' = EncodeToVec(EncodeOf(codecKind, codecValue))
    /\ UNCHANGED <<codecKind, codecValue, codecChildren, codecInput, codecResult, sizedOutput>>
    /\ UNCHANGED writerVars

\* Decode::decode on the bytes encode produced
DecodeEncoded ==
    /\ codecOutput # <<>>
    /\ codecResult.st = "none"
    /\ codecInput' = codecOutput
    /\ codecResult' = DecodeOf(codecKind, codecOutput)
    /\ UNCHANGED <<codecKind, codecValue, codecChildren, codecOutput, sizedOutput>>
    /\ UNCHANGED writerVars

NextCodec == EncodeValue \/ DecodeEncoded

SpecCodec == InitCodec /\ [][NextCodec]_vars

----------------------------------------------------------------------------
(* Encoding one value with the seek-backpatch encoder and with the         *)
(* size-precomputed encoder                                                *)

\* what the size-precomputed encode writes for value as a box of the kind
SizedEncodeOf(kind, value) ==
    CASE kind = "ftyp" -> SizedFileTypeBox(value).bytes
      [] kind = "mdat" -> SizedMediaDataBox(value).bytes
      [] kind = "moov" -> SizedMovieBox(value).bytes
      [] kind = "mvhd" -> SizedMovieHeaderBox(value).bytes
      [] kind = "trak" -> SizedTrackBox(value).bytes
      [] kind = "tkhd" -> SizedTrackHeaderBox(value).bytes
      [] kind = "mdia" -> SizedMediaBox(value).bytes
      [] kind = "mdhd" -> SizedMediaHeaderBox(value).bytes
      [] kind = "hdlr" -> SizedHandlerBox(value).bytes
      [] kind = "minf" -> SizedMediaInformationBox(value).bytes
      [] kind = "vmhd" -> SizedVideoMediaHeaderBox(value).bytes
      [] kind = "smhd" -> SizedSoundMediaHeaderBox(value).bytes
      [] kind = "dinf" -> SizedDataInformationBox(value).bytes
      [] kind = "dref" -> SizedDataReferenceBox(value).bytes
      [] kind = "stbl" -> SizedSampleTableBox(value).bytes
      [] kind = "stsd" -> SizedSampleDescriptionBox(value).bytes
      [] kind = "stts" -> SizedTimeToSampleBox(value).bytes
      [] kind = "stss" -> SizedSyncSampleBox(value).bytes
      [] kind = "stsz" -> SizedSampleSizeBox(value).bytes
      [] kind = "stsc" -> SizedSampleToChunkBox(value).bytes
      [] kind = "stco" -> SizedChunkOffsetBox(value).bytes
      [] kind = "sbgp" -> SizedSampleToGroupBox(value).bytes
      [] kind = "edts" -> SizedEditBox(value).bytes
      [] kind = "elst" -> SizedEditListBox(value).bytes

\* the box types both files encode from the same fields
SizedKinds == Kinds \ {"File", "meta", "iloc"}

InitSized ==
    /\ InitCodec
    /\ codecKind \in SizedKinds

\* value.encode(&mut output) of marshall.rs
EncodeSized ==
    /\ sizedOutput = <<>>
    /\ sizedOutput' = SizedEncodeOf(codecKind, codecValue)
    /\ UNCHANGED <<codecKind, codecValue, codecChildren, codecInput, codecResult, codecOutput>>
    /\ UNCHANGED writerVars

NextSized == EncodeValue \/ EncodeSized

SpecSized == InitSized /\ [][NextSized]_vars

----------------------------------------------------------------------------
(* The String codec on its own: a byte slice is decoded, a string encoded *)

\* impl Decode for String of marshall.rs: position(..).unwrap_or(0), so a
\* slice without NUL gives the empty string and is left as it is
SizedStringDecode(input) ==
    LET ks == {k \in 1..Len(input) : input[k] = 0}
        length == IF ks = {} THEN 0 ELSE (CHOOSE k \in ks : \A l \in ks : k <= l) - 1
    IN  Ok(SubSeq(input, 1, length), SubSeq(input, length + 1, Len(input)))

\* the byte strings over alphabet of length at most n
BytesUpTo(alphabet, n) == UNION { [1..k -> alphabet] : k \in 0..n }

\* the slices decoded: 'A', 'B' and NUL in every arrangement
StringInputs == BytesUpTo({0, 65, 66}, MaxStringLen)
\* the strings encoded
StringValues == BytesUpTo({65, 66}, MaxStringLen)

InitStrings ==
    /\ WriterWith(0)
    /\ codecKind = "String"
    /\ codecValue \in StringValues
    /\ codecChildren = <<>>
    /\ codecInput \in StringInputs
    /\ codecResult = [st |-> "none"]
    /\ codecOutput = <<>>
    /\ sizedOutput = <<>>

\* String::decode(&mut &input[..])
DecodeString ==
    /\ codecResult.st = "none"
    /\ codecResult' = StringDecode(codecInput)
    /\ UNCHANGED <<codecKind, codecValue, codecChildren, codecInput, codecOutput, sizedOutput>>
    /\ UNCHANGED writerVars

\* value.encode(..) into an empty sink, by the encoder of marshal.rs and by
\* the one of marshall.rs
EncodeString ==
    /\ codecOutput = <<>>
    /\ codecOutput' = StringEncode(codecValue)
    /\ sizedOutput' = SizedString(codecValue).bytes
    /\ UNCHANGED <<codecKind, codecValue, codecChildren, codecInput, codecResult>>
    /\ UNCHANGED writerVars

NextStrings == DecodeString \/ EncodeString

SpecStrings == InitStrings /\ [][NextStrings]_vars

----------------------------------------------------------------------------
(* Decoding a parent box whose children an arbitrary producer wrote *)

\* a box as it sits in a file: size, type, body
BoxBytes(type, body) == U32Bytes(8 + Len(body)) \o type \o body

\* an stsd box holding its one sample entry
WellFormedStsd ==
    BoxBytes(T_stsd,
        Zeros(4) \o U32Bytes(1) \o BoxBytes(T_av01, VisualSampleEntryEncode(VisualEntry)))

RECURSIVE WellFormed(_)
\* a well-formed box of each kind, nested ones holding well-formed children
WellFormed(kind) ==
    CASE kind = "stsd" -> WellFormedStsd
      [] kind = "iloc" -> BoxBytes(T_iloc, Zeros(4) \o <<0, 0>> \o U16Bytes(0))
      [] kind = "stbl" ->
            BoxBytes(T_stbl,
                WellFormedStsd
                \o EncodeToVec(TimeToSampleBoxEncode(<<[sample_count |-> 1, sample_delta |-> 33]>>))
                \o EncodeToVec(SampleSizeBoxEncode([variant |-> "PerSample", samples |-> <<1>>]))
                \o EncodeToVec(SampleToChunkBoxEncode(<<Run(1, 1)>>))
                \o EncodeToVec(ChunkOffsetBoxEncode(<<48>>)))
      [] kind = "minf" ->
            BoxBytes(T_minf,
                EncodeToVec(VideoMediaHeaderBoxEncode(VideoMediaHeaderBoxDefault))
                \o EncodeToVec(DataInformationBoxEncode(DataInformationBoxDefault))
                \o WellFormed("stbl"))
      [] kind = "mdia" ->
            BoxBytes(T_mdia,
                EncodeToVec(MediaHeaderBoxEncode(MediaHeaderBoxDefault))
                \o EncodeToVec(HandlerBoxEncode([type |-> FourCC(T_vide), name |-> S_VideoHandler]))
                \o WellFormed("minf"))
      [] kind = "trak" ->
            BoxBytes(T_trak,
                EncodeToVec(TrackHeaderBoxEncode(TrackHeaderBoxDefault)) \o WellFormed("mdia"))
      [] kind = "moov" ->
            BoxBytes(T_moov,
                EncodeToVec(MovieHeaderBoxEncode(MovieHeaderBoxDefault)) \o WellFormed("trak"))
      [] kind = "ftyp" -> EncodeToVec(FileTypeBoxEncode(WriterFileType))
      [] kind = "mdat" -> EncodeToVec(MediaDataBoxEncode(<<1, 2, 3>>))
      [] kind = "mvhd" -> EncodeToVec(MovieHeaderBoxEncode(MovieHeaderBoxDefault))
      [] kind = "tkhd" -> EncodeToVec(TrackHeaderBoxEncode(TrackHeaderBoxDefault))
      [] kind = "mdhd" -> EncodeToVec(MediaHeaderBoxEncode(MediaHeaderBoxDefault))
      [] kind = "hdlr" ->
            EncodeToVec(HandlerBoxEncode([type |-> FourCC(T_vide), name |-> S_VideoHandler]))
      [] kind = "vmhd" -> EncodeToVec(VideoMediaHeaderBoxEncode(VideoMediaHeaderBoxDefault))
      [] kind = "smhd" -> EncodeToVec(SoundMediaHeaderBoxEncode([balance |-> 0]))
      [] kind = "dinf" -> EncodeToVec(DataInformationBoxEncode(DataInformationBoxDefault))
      [] kind = "dref" -> EncodeToVec(DataReferenceBoxEncode(DataInformationBoxDefault.reference))
      [] kind = "stts" ->
            EncodeToVec(TimeToSampleBoxEncode(<<[sample_count |-> 1, sample_delta |-> 33]>>))
      [] kind = "stss" -> EncodeToVec(SyncSampleBoxEncode(<<1>>))
      [] kind = "stsz" ->
            EncodeToVec(SampleSizeBoxEncode([variant |-> "PerSample", samples |-> <<1>>]))
      [] kind = "stsc" -> EncodeToVec(SampleToChunkBoxEncode(<<Run(1, 1)>>))
      [] kind = "stco" -> EncodeToVec(ChunkOffsetBoxEncode(<<48>>))
      [] kind = "sbgp" ->
            EncodeToVec(SampleToGroupBoxEncode([grouping_type |-> FourCC(T_isom),
                                                entries |-> <<>>]))
      [] kind = "elst" -> EncodeToVec(EditListBoxEncode(<<>>))
      [] kind = "edts" -> EncodeToVec(EditBoxEncode([edit_list |-> None]))
      [] kind = "meta" ->
            EncodeToVec(MetaBoxEncode([handler |-> [type |-> FourCC(T_vide), name |-> <<>>],
                                       item_location |-> None]))

\* the children each parent declares
ParentTable(kind) ==
    CASE kind = "File" -> FileChildren
      [] kind = "moov" -> MovieBoxChildren
      [] kind = "trak" -> TrackBoxChildren
      [] kind = "mdia" -> MediaBoxChildren
      [] kind = "minf" -> MediaInformationBoxChildren
      [] kind = "stbl" -> SampleTableBoxChildren
      [] kind = "edts" -> EditBoxChildren
      [] kind = "dinf" -> DataInformationBoxChildren
      [] kind = "meta" -> MetaBoxChildren

Parents == {"File", "moov", "trak", "mdia", "minf", "stbl", "edts", "dinf", "meta"}

\* the kind of box a FourCC names
KindOfTag(type) == CHOOSE kind \in Kinds \ {"File"} : TagOf(kind) = type

\* what precedes the children in the parent's body: meta has version and flags
ParentPrefix(kind) == IF kind = "meta" THEN Zeros(4) ELSE <<>>

\* Decode::decode of the parent on its body
ParentDecode(kind, input) ==
    IF kind = "File" THEN FileDecode(input) ELSE DecodeBody(TagOf(kind), input)

\* a size field no body of this model is long enough for
OversizedBox == Pow2_24 - 1

(* The children a producer may put into a parent: for every declared type a *)
(* well-formed box and one whose body stops after a byte; for the first     *)
(* declared type also a box of version 2 and one whose size field runs past *)
(* the end; a box of an undeclared type without a body and one with a body  *)
(* of three bytes; a size field below 8; and three stray bytes.             *)
ChildPool(kind) ==
    LET table == ParentTable(kind)
    IN  { [type |-> table[k].type, bytes |-> WellFormed(KindOfTag(table[k].type))] :
            k \in 1..Len(table) }
        \cup { [type |-> table[k].type, bytes |-> BoxBytes(table[k].type, <<0>>)] :
                 k \in 1..Len(table) }
        \cup { [type |-> table[1].type, bytes |-> BoxBytes(table[1].type, <<2, 0, 0, 0>>)],
               [type |-> table[1].type, bytes |-> U32Bytes(OversizedBox) \o table[1].type],
               [type |-> T_free, bytes |-> BoxBytes(T_free, <<>>)],
               [type |-> T_free, bytes |-> BoxBytes(T_free, <<1, 2, 3>>)],
               [type |-> T_free, bytes |-> U32Bytes(4) \o T_free],
               [type |-> T_free, bytes |-> <<0, 0, 0>>] }

InitBoxes ==
    /\ WriterWith(0)
    /\ codecKind \in Parents
    /\ codecValue = <<>>
    /\ codecChildren = <<>>
    /\ codecInput = ParentPrefix(codecKind)
    /\ codecResult = [st |-> "none"]
    /\ codecOutput = <<>>
    /\ sizedOutput = <<>>

\* the producer appends one more child to the parent's body
AppendChild ==
    \E c \in ChildPool(codecKind) :
        /\ codecResult.st = "none"
        /\ Len(codecChildren) < MaxChildren
        /\ codecChildren' = Append(codecChildren, c)
        /\ codecInput' = codecInput \o c.bytes
        /\ UNCHANGED <<codecKind, codecValue, codecResult, codecOutput, sizedOutput>>
        /\ UNCHANGED writerVars

\* the parent's Decode::decode on the body
DecodeParent ==
    /\ codecResult.st = "none"
    /\ codecResult' = ParentDecode(codecKind, codecInput)
    /\ UNCHANGED <<codecKind, codecValue, codecChildren, codecInput, codecOutput, sizedOutput>>
    /\ UNCHANGED writerVars

NextBoxes == AppendChild \/ DecodeParent

SpecBoxes == InitBoxes /\ [][NextBoxes]_vars

----------------------------------------------------------------------------
(* Properties of the writer *)

\* the sample table the writer has encoded for its i-th track
SampleTable(i) == Unwrap(movie).tracks[i].media.information.sample_table

\* the durations of the samples w, in write order
DurationsOf(w) == [k \in 1..Len(w) |-> w[k].duration]

RECURSIVE ExpandRuns(_)
\* the per-sample deltas a time-to-sample table stands for
ExpandRuns(runs) ==
    IF runs = <<>> THEN <<>>
    ELSE [k \in 1..Head(runs).sample_count |-> Head(runs).sample_delta] \o ExpandRuns(Tail(runs))

\* the time-to-sample table runs is the run-length encoding of the durations of w
IsRunLengthEncoding(runs, w) ==
    /\ ExpandRuns(runs) = DurationsOf(w)
    /\ \A k \in 1..Len(runs) : runs[k].sample_count >= 1
    /\ \A k \in 1..(Len(runs) - 1) : runs[k].sample_delta # runs[k + 1].sample_delta

RECURSIVE SamplesInChunks(_, _, _)
\* samples_per_chunk summed over the chunks 1..nchunks, the k-th run and those
\* after it applied to the chunks they cover
SamplesInChunks(runs, k, nchunks) ==
    IF k > Len(runs) THEN 0
    ELSE LET last == IF k < Len(runs) THEN runs[k + 1].first_chunk - 1 ELSE nchunks
         IN  runs[k].samples_per_chunk * (last - runs[k].first_chunk + 1)
             + SamplesInChunks(runs, k + 1, nchunks)

RECURSIVE SyncPositions(_, _)
\* the 1-based positions, from k on, of the samples of w written with sync
SyncPositions(w, k) ==
    IF k > Len(w) THEN <<>>
    ELSE (IF w[k].sync THEN <<k>> ELSE <<>>) \o SyncPositions(w, k + 1)

StrictlyIncreasing(s) == \A k \in 1..(Len(s) - 1) : s[k] < s[k + 1]
NonDecreasing(s) == \A k \in 1..(Len(s) - 1) : s[k] <= s[k + 1]

\* C1: every box closed by update_box_header, at any depth, holds in the four
\* bytes at its start offset 8 plus the number of body bytes written for it.
C1_SizeIsHeaderPlusBody ==
    \A i \in 1..Len(output.boxes) :
        LET b == output.boxes[i]
            body == b.end - b.begin - 8
        IN  /\ body >= 0
            /\ b.end <= Len(output.buf)
            /\ BigEndian(SubSeq(output.buf, b.begin + 1, b.begin + 4)) = 8 + body

\* C1 witness: a finished file with two tracks, all samples written, and a box
\* nested in another one.
C1_Witness ==
    /\ phase = "finished"
    /\ Len(Unwrap(movie).tracks) = 2
    /\ TotalWritten = MaxSamples
    /\ \E i, j \in 1..Len(output.boxes) :
          /\ output.boxes[j].begin < output.boxes[i].begin
          /\ output.boxes[i].end <= output.boxes[j].end
          /\ output.boxes[i].end - output.boxes[i].begin > 8

\* C4: after finish, for every track, samples_per_chunk summed over the chunks
\* the sample-to-chunk runs cover is the number of samples written to the track.
C4_ChunkRunsCoverSamples ==
    phase = "finished" =>
        \A i \in 1..Len(Unwrap(movie).tracks) :
            /\ \A k \in 1..Len(SampleTable(i).sample_to_chunk) :
                  /\ SampleTable(i).sample_to_chunk[k].first_chunk >= 1
                  /\ SampleTable(i).sample_to_chunk[k].first_chunk
                        <= Len(SampleTable(i).chunk_offset)
            /\ StrictlyIncreasing([k \in 1..Len(SampleTable(i).sample_to_chunk) |->
                                     SampleTable(i).sample_to_chunk[k].first_chunk])
            /\ SamplesInChunks(SampleTable(i).sample_to_chunk, 1,
                               Len(SampleTable(i).chunk_offset)) = Len(written[i])

\* C4 witness: a finished track of three samples whose table has several runs,
\* one of them covering more than one chunk.
C4_Witness ==
    /\ phase = "finished"
    /\ \E i \in 1..Len(Unwrap(movie).tracks) :
          /\ Len(written[i]) = 3
          /\ Len(SampleTable(i).sample_to_chunk) >= 2
          /\ Len(SampleTable(i).chunk_offset) > Len(SampleTable(i).sample_to_chunk)

\* C5: the time-to-sample table of a track is the run-length encoding of the
\* durations written to it, with no two adjacent runs of the same delta; the
\* durations 33,33,33,50,50 give the runs (3,33), (2,50).
C5_TimeToSampleIsRunLength ==
    /\ phase = "open" =>
          \A i \in 1..Len(tracks) : IsRunLengthEncoding(tracks[i].sample_times, written[i])
    /\ phase = "finished" =>
          \A i \in 1..Len(Unwrap(movie).tracks) :
              IsRunLengthEncoding(SampleTable(i).time_to_sample, written[i])
    /\ (phase = "open" /\ DurationsOf(written[1]) = <<33, 33, 33, 50, 50>>) =>
          tracks[1].sample_times = <<[sample_count |-> 3, sample_delta |-> 33],
                                     [sample_count |-> 2, sample_delta |-> 50]>>

\* C5 witness: the durations 33,33,33,50,50 have been written.
C5_Witness ==
    /\ phase = "open"
    /\ DurationsOf(written[1]) = <<33, 33, 33, 50, 50>>
    /\ Len(tracks[1].sample_times) = 2

\* C6: of 40 samples of duration 33, the first 31 are flushed as one chunk
\* during the 31st write, and finish flushes the other 9 as the final chunk, so
\* that samples_per_chunk summed over the recorded chunks is 40.
C6_FortySamplesTwoChunks ==
    /\ (phase = "open" /\ Len(written[1]) = 30) =>
          /\ tracks[1].chunk_offsets = <<>>
          /\ tracks[1].chunk_samples = <<>>
          /\ tracks[1].chunk_sample_count = 30
    /\ (phase = "open" /\ Len(written[1]) = 31) =>
          /\ Len(tracks[1].chunk_offsets) = 1
          /\ tracks[1].chunk_samples = <<Run(1, 31)>>
          /\ tracks[1].chunk_sample_count = 0
    /\ (phase = "open" /\ Len(written[1]) = 40) =>
          /\ Len(tracks[1].chunk_offsets) = 1
          /\ tracks[1].chunk_sample_count = 9
    /\ (phase = "finished" /\ Len(written[1]) = 40) =>
          /\ SampleTable(1).sample_to_chunk = <<Run(1, 31), Run(2, 9)>>
          /\ Len(SampleTable(1).chunk_offset) = 2
          /\ SamplesInChunks(SampleTable(1).sample_to_chunk, 1, 2) = 40

\* C6 witness: 40 samples of duration 33 written to the one track, then finish.
C6_Witness ==
    /\ phase = "finished"
    /\ Len(written[1]) = 40
    /\ \A k \in 1..40 : written[1][k].duration = 33

\* every sample written to the i-th track carried at least one byte
AllPayloadsNonEmpty(i) == \A k \in 1..Len(written[i]) : written[i][k].data # <<>>

\* C7 as stated: after finish, the chunk offsets of every track are strictly
\* increasing, whatever samples were written.
C7_OffsetsStrictlyIncreasing ==
    phase = "finished" =>
        \A i \in 1..Len(Unwrap(movie).tracks) : StrictlyIncreasing(SampleTable(i).chunk_offset)

\* C7 amended: after finish, the chunk offsets of every track are non-decreasing,
\* and strictly increasing for a track all of whose samples carried data.
C7_OffsetsIncreasing ==
    phase = "finished" =>
        \A i \in 1..Len(Unwrap(movie).tracks) :
            /\ NonDecreasing(SampleTable(i).chunk_offset)
            /\ AllPayloadsNonEmpty(i) => StrictlyIncreasing(SampleTable(i).chunk_offset)

\* C7 witness: a finished track with several chunks, all its samples carrying data.
C7_Witness ==
    /\ phase = "finished"
    /\ \E i \in 1..Len(Unwrap(movie).tracks) :
          /\ Len(written[i]) >= 2
          /\ AllPayloadsNonEmpty(i)
          /\ Len(SampleTable(i).chunk_offset) >= 3

\* C8: the sync-sample list of a track holds exactly the 1-based positions of
\* the samples written with sync, strictly increasing and at most the number
\* of samples written.
C8_SyncList ==
    /\ phase = "open" =>
          \A i \in 1..Len(tracks) :
              /\ tracks[i].sample_syncs = SyncPositions(written[i], 1)
              /\ StrictlyIncreasing(tracks[i].sample_syncs)
              /\ \A k \in 1..Len(tracks[i].sample_syncs) :
                    /\ tracks[i].sample_syncs[k] >= 1
                    /\ tracks[i].sample_syncs[k] <= Len(tracks[i].sample_sizes)
              /\ Len(tracks[i].sample_sizes) = Len(written[i])
    /\ phase = "finished" =>
          \A i \in 1..Len(Unwrap(movie).tracks) :
              /\ IsSome(SampleTable(i).sync_sample)
              /\ Unwrap(SampleTable(i).sync_sample) = SyncPositions(written[i], 1)

\* C8 witness: a track written a sync sample, then a non-sync one, then a sync one.
C8_Witness ==
    /\ phase = "open"
    /\ \E i \in 1..Len(tracks) :
          /\ Len(written[i]) = 3
          /\ written[i][1].sync /\ ~written[i][2].sync /\ written[i][3].sync
          /\ tracks[i].sample_syncs = <<1, 3>>

----------------------------------------------------------------------------
(* Properties of encode and decode *)

\* C2 as stated: for every box type, decoding the bytes that encoding a value
\* produced succeeds and returns a value equal to the one encoded.
C2_DecodeOfEncodeIsIdentity ==
    codecResult.st # "none" => codecResult.st = "ok" /\ codecResult.val = codecValue

\* C3 as stated: the bytes the writer leaves after finish decode with
\* File::decode, and the decoded File encodes to the same bytes again.
C3_WriterOutputRoundTrips ==
    /\ phase \in {"decoded", "reencoded"} => codecResult.st = "ok"
    /\ phase = "reencoded" => codecOutput = output.buf

\* the child c is one whole box: its size field counts exactly its bytes
WellFramed(c) == Len(c.bytes) >= 8 /\ BigEndian(SubSeq(c.bytes, 1, 4)) = Len(c.bytes)

\* the parent's loop passes the child c: c is a whole box whose type is not
\* declared, or whose body its type's decoder accepts
ChildDecodes(kind, c) ==
    /\ WellFramed(c)
    /\ \/ Declared(ParentTable(kind), c.type) = 0
       \/ DecodeBody(c.type, SubSeq(c.bytes, 9, Len(c.bytes))).st = "ok"

\* the parent has decoded a body none of whose children is of this type
DecodedWithout(kind, type) ==
    /\ codecKind = kind
    /\ codecResult.st # "none"
    /\ \A k \in 1..Len(codecChildren) : codecChildren[k].type # type

\* C9 as stated: decoding a moov without a trak child never returns a movie,
\* and when its children decode and hold the one mvhd, the failure is the
\* quantity error for trak, 0 found where 1 is expected.
C9_MoovWithoutTrakFails ==
    DecodedWithout("moov", T_trak) =>
        /\ codecResult.st # "ok"
        /\ ( /\ \A k \in 1..Len(codecChildren) : ChildDecodes("moov", codecChildren[k])
             /\ Cardinality({k \in 1..Len(codecChildren) : codecChildren[k].type = T_mvhd}) = 1 )
           => codecResult = ErrQuantity(T_trak, 0, 1)

\* the j-th child is of a type declared required or optional that an earlier
\* child has too
Repeats(j) ==
    /\ \E k \in 1..Len(ParentTable(codecKind)) :
          /\ ParentTable(codecKind)[k].type = codecChildren[j].type
          /\ ParentTable(codecKind)[k].quantifier # "multiple"
    /\ \E i \in 1..(j - 1) : codecChildren[i].type = codecChildren[j].type

\* the first child that repeats a type, the children before it being boxes the
\* loop passes and the child itself a whole box
FirstRepeat(j) ==
    /\ j \in 1..Len(codecChildren)
    /\ Repeats(j)
    /\ WellFramed(codecChildren[j])
    /\ \A i \in 1..(j - 1) : ~Repeats(i) /\ ChildDecodes(codecKind, codecChildren[i])

\* C10: decoding a parent in which a child of a type declared required or
\* optional occurs a second time fails with InvalidBoxQuantity carrying that
\* type, quantity 2 and expected 1, whatever the second child's body holds and
\* whatever follows it; the children read before it are boxes that decode.
C10_SecondOccurrenceIsQuantityError ==
    codecResult.st # "none" =>
        \A j \in 1..Len(codecChildren) :
            FirstRepeat(j) => codecResult = ErrQuantity(codecChildren[j].type, 2, 1)

\* C10 witness: a moov whose body holds two well-formed mvhd children has been
\* decoded, and the result is the quantity error for mvhd, 2 where 1 is expected.
C10_Witness ==
    /\ codecKind = "moov"
    /\ Len(codecChildren) = 2
    /\ codecChildren[1] = [type |-> T_mvhd, bytes |-> WellFormed("mvhd")]
    /\ codecChildren[2] = codecChildren[1]
    /\ codecResult = ErrQuantity(T_mvhd, 2, 1)

\* the parent has decoded a body whose children are all boxes the loop passes,
\* none of them a second child of a type declared required or optional
DecodedChildrenThatDecode(kind) ==
    /\ codecKind = kind
    /\ codecResult.st # "none"
    /\ \A k \in 1..Len(codecChildren) :
          ChildDecodes(kind, codecChildren[k]) /\ ~Repeats(k)

\* C11 as stated: File::decode on top-level boxes that decode but lack an ftyp
\* box or lack a moov box fails with a quantity error, 0 found where 1 is
\* expected.
C11_FileWithoutFtypOrMoovFails ==
    ( /\ DecodedChildrenThatDecode("File")
      /\ \/ \A k \in 1..Len(codecChildren) : codecChildren[k].type # T_ftyp
         \/ \A k \in 1..Len(codecChildren) : codecChildren[k].type # T_moov )
    => /\ codecResult.st = "qty"
       /\ codecResult.quantity = 0
       /\ codecResult.expected = 1

\* C12 as stated: File::decode returns Ok or Err on every input; no input makes
\* it panic.
C12_FileDecodeNeverPanics ==
    (codecKind = "File" /\ codecResult.st # "none") => codecResult.st \in {"ok", "io", "qty"}


\* C13 as stated: when both encoders have encoded the same value, the
\* size-precomputed encoder and the seek-backpatch encoder have produced the
\* same bytes.
C13_EncodersAgree ==
    (codecOutput # <<>> /\ sizedOutput # <<>>) => codecOutput = sizedOutput

\* the stsz box finish() encoded for track i, decoded again
DecodedSampleSize(i) ==
    DecodeOf("stsz", EncodeToVec(SampleSizeBoxEncode(SampleTable(i).sample_size)))

\* the samples written to a track are one or more and all of one byte size,
\* which is not 0 (a sample_size of 0 in the box announces the per-sample table)
AllSameSize(w) ==
    /\ w # <<>>
    /\ Len(w[1].data) > 0
    /\ \A k \in 1..Len(w) : Len(w[k].data) = Len(w[1].data)

\* C14 as stated: after finish(), the sample-size box of a track whose samples
\* all have the same byte size decodes to the Value variant, and that of a
\* track whose sample sizes differ decodes to the PerSample variant.
C14_SampleSizeVariant ==
    phase = "finished" =>
        \A i \in 1..Len(Unwrap(movie).tracks) :
            /\ DecodedSampleSize(i).st = "ok"
            /\ AllSameSize(written[i]) => DecodedSampleSize(i).val.variant = "Value"
            /\ (\E j, k \in 1..Len(written[i]) :
                       Len(written[i][j].data) # Len(written[i][k].data)) =>
                   DecodedSampleSize(i).val.variant = "PerSample"

\* the half of C14 about differing sizes, which is checked on its own
C14_DifferingSizesPerSample ==
    phase = "finished" =>
        \A i \in 1..Len(Unwrap(movie).tracks) :
            (\E j, k \in 1..Len(written[i]) : Len(written[i][j].data) # Len(written[i][k].data)) =>
                /\ DecodedSampleSize(i).st = "ok"
                /\ DecodedSampleSize(i).val.variant = "PerSample"
                /\ DecodedSampleSize(i).val.samples = [k \in 1..Len(written[i]) |-> Len(written[i][k].data)]

RECURSIVE SumDurations(_)
\* the sum of the durations of the samples written to a track
SumDurations(w) == IF w = <<>> THEN 0 ELSE Head(w).duration + SumDurations(Tail(w))

RECURSIVE SumOfTotals(_)
SumOfTotals(ws) == IF ws = <<>> THEN 0 ELSE SumDurations(Head(ws)) + SumOfTotals(Tail(ws))

RECURSIVE MaxOfTotals(_)
MaxOfTotals(ws) ==
    IF ws = <<>> THEN 0
    ELSE IF SumDurations(Head(ws)) > MaxOfTotals(Tail(ws)) THEN SumDurations(Head(ws))
    ELSE MaxOfTotals(Tail(ws))

\* C15 as stated: after finish(), the duration of the movie header is the
\* largest of the tracks' total durations, or it is their sum.
C15_MovieDurationIsMaxOrSum ==
    phase = "finished" =>
        \/ Unwrap(movie).header.duration = W64(MaxOfTotals(written))
        \/ Unwrap(movie).header.duration = W64(SumOfTotals(written))

\* what finish() does write: a movie header duration of 0, and in each track
\* header the track's total duration
C15_MovieDurationIsZero ==
    phase = "finished" =>
        /\ Unwrap(movie).header.duration = W64(0)
        /\ \A i \in 1..Len(Unwrap(movie).tracks) :
              Unwrap(movie).tracks[i].header.duration = W64(SumDurations(written[i]))

\* C16 as stated: the writer has its tracks from construction on, so that no
\* call of sample fails on a writer that holds no track at all.
C16_SampleFindsConfiguredTrack ==
    ~(phase = "panicked" /\ tracks = <<>>)

\* the half of C16 about a writer that does hold tracks: a call of sample with
\* the index of one of them meets none of the conditions under which sample
\* panics, and the samples that were written are in the track's tables
C16_SampleToHeldTrackRecords ==
    phase = "open" =>
        \A i \in 1..Len(tracks) :
            /\ \A duration \in Durations : ~WideAdd32(tracks[i].total_duration, duration).overflow
            /\ tracks[i].sample_sizes = [k \in 1..Len(written[i]) |-> Len(written[i][k].data)]
            /\ tracks[i].total_duration = W32(SumDurations(written[i]))

\* the j-th child is of a type the parent does not declare
Undeclared(j) == Declared(ParentTable(codecKind), codecChildren[j].type) = 0

RECURSIVE DeclaredOnly(_, _)
\* the bytes of the children of declared types, in the order of the body
DeclaredOnly(kind, cs) ==
    IF cs = <<>> THEN <<>>
    ELSE (IF Declared(ParentTable(kind), Head(cs).type) = 0 THEN <<>> ELSE Head(cs).bytes)
         \o DeclaredOnly(kind, Tail(cs))

\* every child of an undeclared type, and every child before it, is a whole
\* box: its size field is 8 or more and spans exactly the bytes up to the
\* next child
UndeclaredAreWholeBoxes ==
    \A j \in 1..Len(codecChildren) :
        Undeclared(j) => \A i \in 1..j : WellFramed(codecChildren[i])

\* C17: a child of a type the parent does not declare is passed over, its
\* header and the size - 8 bytes of its body and no more: decoding the parent
\* returns what decoding the same body without these children returns, be it
\* the value built from the siblings or their error.  The children of
\* undeclared types and those before them are whole boxes.
C17_UndeclaredChildIsSkipped ==
    (codecResult.st # "none" /\ UndeclaredAreWholeBoxes) =>
        codecResult = ParentDecode(codecKind,
                          ParentPrefix(codecKind) \o DeclaredOnly(codecKind, codecChildren))

\* C17 witness: a moov whose body holds an mvhd, a free box with a body of
\* three bytes and a trak has been decoded; the result is the movie with the
\* header and the one track.
C17_Witness ==
    /\ codecKind = "moov"
    /\ Len(codecChildren) = 3
    /\ codecChildren[1] = [type |-> T_mvhd, bytes |-> WellFormed("mvhd")]
    /\ codecChildren[2] = [type |-> T_free, bytes |-> BoxBytes(T_free, <<1, 2, 3>>)]
    /\ codecChildren[3] = [type |-> T_trak, bytes |-> WellFormed("trak")]
    /\ codecResult.st = "ok"
    /\ Len(codecResult.val.tracks) = 1

\* C18 as stated: after finish(), every run of the sample-to-chunk table of a
\* track counts one sample or more per chunk, and a track that never received
\* a sample has no chunk offset and no run.
C18_FinishFlushesOnlyPartialChunk ==
    phase = "finished" =>
        \A i \in 1..Len(Unwrap(movie).tracks) :
            /\ \A k \in 1..Len(SampleTable(i).sample_to_chunk) :
                  SampleTable(i).sample_to_chunk[k].samples_per_chunk >= 1
            /\ written[i] = <<>> =>
                  /\ SampleTable(i).chunk_offset = <<>>
                  /\ SampleTable(i).sample_to_chunk = <<>>

\* what finish() does record for a track with nothing buffered: one more
\* chunk offset, and a run of 0 samples per chunk for it
C18_FinishRecordsEmptyChunk ==
    phase = "finished" =>
        \A i \in 1..Len(Unwrap(movie).tracks) :
            written[i] = <<>> =>
                /\ Len(SampleTable(i).chunk_offset) = 1
                /\ SampleTable(i).sample_to_chunk = <<Run(1, 0)>>

\* what one flush may do to the sample-to-chunk table: before and after are
\* the table before and after it, nchunks the number of chunks recorded before
\* it and count the number of samples of the chunk it flushes
FlushKeepsOrAppendsRun(before, after, nchunks, count) ==
    IF before # <<>> /\ before[Len(before)].samples_per_chunk = count
    THEN after = before
    ELSE after = Append(before, [first_chunk |-> nchunks + 1,
                                 samples_per_chunk |-> count,
                                 sample_description_index |-> 1])

\* the first_chunk values of a table start at 1 and increase strictly
FirstChunksFromOne(runs) ==
    /\ runs # <<>> => runs[1].first_chunk = 1
    /\ \A k \in 1..(Len(runs) - 1) : runs[k].first_chunk < runs[k + 1].first_chunk

\* a step of sample(): a track whose chunk-offset list grew by one has flushed
\* the chunk of the samples it had counted and the one just written; the
\* table of any other track is as it was
FlushDuringSample ==
    (phase = "open" /\ phase' = "open") =>
        \A i \in 1..Len(tracks) :
            IF Len(tracks'[i].chunk_offsets) = Len(tracks[i].chunk_offsets) + 1
            THEN FlushKeepsOrAppendsRun(tracks[i].chunk_samples, tracks'[i].chunk_samples,
                     Len(tracks[i].chunk_offsets), tracks[i].chunk_sample_count + 1)
            ELSE tracks'[i].chunk_samples = tracks[i].chunk_samples

\* a step of finish(): every track has flushed the chunk of the samples it
\* had counted, and the movie holds the tables
FlushDuringFinish ==
    (phase = "open" /\ phase' = "finished") =>
        \A i \in 1..Len(tracks) :
            FlushKeepsOrAppendsRun(tracks[i].chunk_samples,
                Unwrap(movie').tracks[i].media.information.sample_table.sample_to_chunk,
                Len(tracks[i].chunk_offsets), tracks[i].chunk_sample_count)

\* C19: each chunk flush, during sample() or finish(), leaves the
\* sample-to-chunk table as it is when the last run's samples_per_chunk is the
\* flushed chunk's sample count, and otherwise appends the one run
\* { first_chunk: 1-based index of the chunk, samples_per_chunk: its count,
\* sample_description_index: 1 }; in every state the first_chunk values of
\* every table start at 1 and increase strictly.
C19_FlushKeepsOrAppendsRun ==
    /\ [](/\ phase = "open" =>
                \A i \in 1..Len(tracks) : FirstChunksFromOne(tracks[i].chunk_samples)
          /\ phase = "finished" =>
                \A i \in 1..Len(Unwrap(movie).tracks) :
                    FirstChunksFromOne(SampleTable(i).sample_to_chunk))
    /\ [][FlushDuringSample /\ FlushDuringFinish]_vars

\* C19 witness: a track has flushed a chunk of one sample and then a chunk of
\* two, and its table holds the runs (1, 1) and (2, 2).
C19_Witness ==
    /\ phase = "open"
    /\ \E i \in 1..Len(tracks) :
          /\ DurationsOf(written[i]) = <<1000, 500, 500>>
          /\ Len(tracks[i].chunk_offsets) = 2
          /\ tracks[i].chunk_samples = <<Run(1, 1), Run(2, 2)>>

RECURSIVE ConcatData(_)
\* the payloads of samples, one after the other
ConcatData(w) == IF w = <<>> THEN <<>> ELSE Head(w).data \o ConcatData(Tail(w))

\* the samples written to track i that no recorded chunk holds: those after
\* the samples the sample-to-chunk runs assign to the recorded chunks
Pending(i) ==
    SubSeq(written[i],
           SamplesInChunks(tracks[i].chunk_samples, 1, Len(tracks[i].chunk_offsets)) + 1,
           Len(written[i]))

\* whenever sample() has returned, the accumulated duration of every track is
\* below 1000, and its chunk buffer, sample count and duration are those of
\* the samples written since its last flush
ChunkStateIsPending ==
    phase = "open" =>
        \A i \in 1..Len(tracks) :
            /\ tracks[i].chunk_duration < 1000
            /\ tracks[i].chunk_duration = SumDurations(Pending(i))
            /\ tracks[i].chunk_sample_count = Len(Pending(i))
            /\ tracks[i].chunk_buffer = ConcatData(Pending(i))

\* a step of sample() on track i records one more chunk when the durations
\* of the samples since the last flush and of the one written reach 1000, and
\* records none otherwise
FlushAtThreshold ==
    (phase = "open" /\ phase' = "open") =>
        \A i \in 1..Len(tracks) :
            Len(written'[i]) = Len(written[i]) + 1 =>
                IF SumDurations(Pending(i)) + written'[i][Len(written'[i])].duration >= 1000
                THEN /\ Len(tracks'[i].chunk_offsets) = Len(tracks[i].chunk_offsets) + 1
                     /\ tracks'[i].chunk_offsets[Len(tracks'[i].chunk_offsets)] = output.pos
                ELSE tracks'[i].chunk_offsets = tracks[i].chunk_offsets

\* C20: during a call of sample() a chunk is flushed exactly when the
\* durations accumulated since the last flush, the sample's own included,
\* reach 1000 or more; whenever the call has returned, the accumulated chunk
\* duration is below 1000 and the chunk buffer, the chunk's sample count and
\* its duration are those of the samples written since the last flush.  The
\* durations are such that the u32 sum of chunk_duration and the sample's
\* duration does not wrap.
C20_FlushExactlyAtThreshold ==
    []ChunkStateIsPending /\ [][FlushAtThreshold]_vars

\* C20 witness: a track has received samples of durations 500, 500 and 500;
\* the second reached 1000 and was flushed with the first, the third is the
\* only one pending.
C20_Witness ==
    /\ phase = "open"
    /\ \E i \in 1..Len(tracks) :
          /\ DurationsOf(written[i]) = <<500, 500, 500>>
          /\ Len(tracks[i].chunk_offsets) = 1
          /\ tracks[i].chunk_sample_count = 1
          /\ tracks[i].chunk_duration = 500
          /\ tracks[i].chunk_buffer = written[i][3].data

----------------------------------------------------------------------------
(* Properties of the media data the writer lays out *)

\* the number of samples of chunk c (1-based) under the sample-to-chunk runs:
\* samples_per_chunk of the last run whose first_chunk is at most c
SamplesOfChunk(runs, c) ==
    LET ks == {k \in 1..Len(runs) : runs[k].first_chunk <= c}
    IN  IF ks = {} THEN 0
        ELSE runs[CHOOSE k \in ks : \A l \in ks : l <= k].samples_per_chunk

RECURSIVE SamplesBeforeChunk(_, _)
\* the number of samples of the chunks before chunk c
SamplesBeforeChunk(runs, c) ==
    IF c <= 1 THEN 0
    ELSE SamplesBeforeChunk(runs, c - 1) + SamplesOfChunk(runs, c - 1)

\* the payloads, concatenated in write order, of the samples of w that the
\* runs assign to chunk c
ChunkPayload(runs, w, c) ==
    ConcatData(SubSeq(w, SamplesBeforeChunk(runs, c) + 1,
                      SamplesBeforeChunk(runs, c) + SamplesOfChunk(runs, c)))

\* the chunk tables of track i: those of the Track while the writer is open,
\* those of its encoded sample table once finish() has moved them
ChunkRuns(i) ==
    IF phase = "open" THEN tracks[i].chunk_samples ELSE SampleTable(i).sample_to_chunk
ChunkOffsets(i) ==
    IF phase = "open" THEN tracks[i].chunk_offsets ELSE SampleTable(i).chunk_offset
TrackCount == IF phase = "open" THEN Len(tracks) ELSE Len(Unwrap(movie).tracks)

\* the byte range [from, to) of chunk c of track i
ChunkRange(i, c) ==
    [from |-> ChunkOffsets(i)[c],
     to |-> ChunkOffsets(i)[c] + Len(ChunkPayload(ChunkRuns(i), written[i], c))]

\* the end of the media-data box: the end of the sink while the box is open,
\* and the position its patched size field gives once finish() has closed it
MediaDataEnd ==
    IF phase = "open" THEN Len(output.buf)
    ELSE media_data_box_begin
         + BigEndian(SubSeq(output.buf, media_data_box_begin + 1, media_data_box_begin + 4))

\* every recorded chunk holds at its offset the payloads of its samples, inside
\* the body of the media-data box, and no two chunks share a byte
ChunksAreWhereRecorded ==
    phase \in {"open", "finished"} =>
        /\ \A i \in 1..TrackCount : \A c \in 1..Len(ChunkOffsets(i)) :
              LET r == ChunkRange(i, c)
              IN  /\ r.from >= media_data_box_begin + 8
                  /\ r.to <= MediaDataEnd
                  /\ SubSeq(output.buf, r.from + 1, r.to)
                        = ChunkPayload(ChunkRuns(i), written[i], c)
        /\ \A i, j \in 1..TrackCount :
              \A c \in 1..Len(ChunkOffsets(i)) : \A d \in 1..Len(ChunkOffsets(j)) :
                  (i # j \/ c # d) =>
                      \/ ChunkRange(i, c).to <= ChunkRange(j, d).from
                      \/ ChunkRange(j, d).to <= ChunkRange(i, c).from

RECURSIVE BufferedBefore(_, _)
\* the number of bytes the tracks before the i-th hold in their chunk buffers
BufferedBefore(ts, i) ==
    IF i <= 1 THEN 0 ELSE BufferedBefore(ts, i - 1) + Len(ts[i - 1].chunk_buffer)

\* a step of sample(): the offset a track records is the position of the sink
\* before the call, where the first byte of the flushed chunk is then written
OffsetIsPositionDuringSample ==
    (phase = "open" /\ phase' = "open") =>
        \A i \in 1..Len(tracks) :
            Len(tracks'[i].chunk_offsets) > Len(tracks[i].chunk_offsets) =>
                /\ tracks'[i].chunk_offsets = Append(tracks[i].chunk_offsets, output.pos)
                /\ output.pos = Len(output.buf)
                /\ output'.buf = output.buf \o tracks[i].chunk_buffer
                                     \o written'[i][Len(written'[i])].data

\* a step of finish(): the tracks are flushed in order, each at the position
\* the flushes before it have reached
OffsetIsPositionDuringFinish ==
    (phase = "open" /\ phase' = "finished") =>
        \A i \in 1..Len(tracks) :
            Unwrap(movie').tracks[i].media.information.sample_table.chunk_offset
                = Append(tracks[i].chunk_offsets, output.pos + BufferedBefore(tracks, i))

\* C21: for every track and every recorded chunk, the chunk offset is the
\* absolute position of the sink at which the chunk's first byte was written,
\* the bytes from there on are the payloads of the chunk's samples in write
\* order, and the byte ranges of all chunks of all tracks are pairwise disjoint
\* and lie inside the media-data box.  Positions stay below 2^32, so that
\* `as u32` keeps them.
C21_ChunkOffsetsLocatePayloads ==
    []ChunksAreWhereRecorded
    /\ [][OffsetIsPositionDuringSample /\ OffsetIsPositionDuringFinish]_vars

\* C21 witness: a finished file of two tracks whose chunks interleave: a chunk
\* with data of one track lies between two chunks with data of the other.
C21_Witness ==
    /\ phase = "finished"
    /\ TrackCount = 2
    /\ \E i, j \in 1..2 :
          /\ i # j
          /\ Len(ChunkOffsets(i)) >= 2 /\ Len(ChunkOffsets(j)) >= 1
          /\ ChunkRange(i, 1).from < ChunkRange(i, 1).to
          /\ ChunkRange(i, 1).to <= ChunkRange(j, 1).from
          /\ ChunkRange(j, 1).from < ChunkRange(j, 1).to
          /\ ChunkRange(j, 1).to <= ChunkRange(i, 2).from
          /\ ChunkRange(i, 2).from < ChunkRange(i, 2).to

RECURSIVE PayloadBytes(_)
\* the number of payload bytes of the samples written, over all tracks
PayloadBytes(ws) ==
    IF ws = <<>> THEN 0 ELSE Len(ConcatData(Head(ws))) + PayloadBytes(Tail(ws))

\* the size field of the file-level media-data box
MediaDataSize ==
    BigEndian(SubSeq(output.buf, media_data_box_begin + 1, media_data_box_begin + 4))

\* C22: after finish(), the size field of the file-level media-data box is 8
\* plus the number of sample payload bytes written for all tracks, and the
\* moov box begins where the media-data box ends.
C22_MediaDataSizeIsHeaderPlusPayloads ==
    phase = "finished" =>
        /\ SubSeq(output.buf, media_data_box_begin + 5, media_data_box_begin + 8) = T_mdat
        /\ MediaDataSize = 8 + PayloadBytes(written)
        /\ SubSeq(output.buf, media_data_box_begin + MediaDataSize + 5,
                  media_data_box_begin + MediaDataSize + 8) = T_moov
        /\ output.boxes[Len(output.boxes)].begin = media_data_box_begin + MediaDataSize
        /\ output.boxes[Len(output.boxes)].end = Len(output.buf)

\* C22 witness: a finished file of two tracks, both with payload bytes, some
\* of them written by a flush during sample() and some by the flush of finish().
C22_Witness ==
    /\ phase = "finished"
    /\ Len(written) = 2
    /\ ConcatData(written[1]) # <<>> /\ ConcatData(written[2]) # <<>>
    /\ \E i \in 1..2 : Len(SampleTable(i).chunk_offset) >= 2
                       /\ ChunkRange(i, 1).from < ChunkRange(i, 1).to
    /\ \E i \in 1..2 :
          LET c == Len(SampleTable(i).chunk_offset)
          IN  ChunkRange(i, c).from < ChunkRange(i, c).to
    /\ MediaDataSize > 8

----------------------------------------------------------------------------
(* How the writer's tables change *)

\* after is before with one entry appended
AppendsOne(before, after) ==
    /\ Len(after) = Len(before) + 1
    /\ SubSeq(after, 1, Len(before)) = before

\* after is before with the sample count of its last run incremented
IncrementsLastRun(before, after) ==
    /\ before # <<>>
    /\ Len(after) = Len(before)
    /\ SubSeq(after, 1, Len(before) - 1) = SubSeq(before, 1, Len(before) - 1)
    /\ after[Len(after)].sample_delta = before[Len(before)].sample_delta
    /\ after[Len(after)].sample_count = before[Len(before)].sample_count + 1

\* a step of sample(): the tables of the track written to change by one
\* append or one increment of the last run each, the chunk tables only when
\* the call flushes; the tables of the other tracks are as they were
TablesDuringSample ==
    (phase = "open" /\ phase' = "open") =>
        /\ Len(tracks') = Len(tracks)
        /\ \A i \in 1..Len(tracks) :
              IF Len(written'[i]) = Len(written[i]) + 1
              THEN /\ \/ AppendsOne(tracks[i].sample_times, tracks'[i].sample_times)
                      \/ IncrementsLastRun(tracks[i].sample_times, tracks'[i].sample_times)
                   /\ AppendsOne(tracks[i].sample_sizes, tracks'[i].sample_sizes)
                   /\ \/ tracks'[i].sample_syncs = tracks[i].sample_syncs
                      \/ AppendsOne(tracks[i].sample_syncs, tracks'[i].sample_syncs)
                   /\ \/ /\ tracks'[i].chunk_offsets = tracks[i].chunk_offsets
                         /\ tracks'[i].chunk_samples = tracks[i].chunk_samples
                      \/ /\ AppendsOne(tracks[i].chunk_offsets, tracks'[i].chunk_offsets)
                         /\ \/ tracks'[i].chunk_samples = tracks[i].chunk_samples
                            \/ AppendsOne(tracks[i].chunk_samples, tracks'[i].chunk_samples)
              ELSE /\ tracks'[i].sample_times = tracks[i].sample_times
                   /\ tracks'[i].sample_sizes = tracks[i].sample_sizes
                   /\ tracks'[i].sample_syncs = tracks[i].sample_syncs
                   /\ tracks'[i].chunk_offsets = tracks[i].chunk_offsets
                   /\ tracks'[i].chunk_samples = tracks[i].chunk_samples

\* the step of finish(): the last flush appends one chunk offset and at most
\* one run to every track, and the sample table of the movie holds the tables
TablesDuringFinish ==
    (phase = "open" /\ phase' = "finished") =>
        /\ movie = NoMovie /\ IsSome(movie')
        /\ tracks' = <<>>
        /\ Len(Unwrap(movie').tracks) = Len(tracks)
        /\ \A i \in 1..Len(tracks) :
              LET st == Unwrap(movie').tracks[i].media.information.sample_table
              IN  /\ st.time_to_sample = tracks[i].sample_times
                  /\ st.sample_size = [variant |-> "PerSample", samples |-> tracks[i].sample_sizes]
                  /\ st.sync_sample = Some(tracks[i].sample_syncs)
                  /\ AppendsOne(tracks[i].chunk_offsets, st.chunk_offset)
                  /\ \/ st.sample_to_chunk = tracks[i].chunk_samples
                     \/ AppendsOne(tracks[i].chunk_samples, st.sample_to_chunk)

\* the movie is assembled by the step of finish() and by no other step
MovedOnlyAtFinish ==
    /\ movie' # movie => (phase = "open" /\ phase' = "finished")
    /\ phase # "open" => (tracks' = <<>> /\ tracks = <<>>)

\* C23: every write_sample and every chunk flush changes each bookkeeping
\* table (time-to-sample, sample-to-chunk, chunk-offset, sample-size,
\* sync-sample) only by appending one entry or by incrementing the run length
\* of its last entry; entries before the last are never modified or removed,
\* and the tables are moved into the box tree exactly once, at finish().
C23_TablesAreAppendOnly ==
    [][TablesDuringSample /\ TablesDuringFinish /\ MovedOnlyAtFinish]_vars

\* C23 witness: a track written durations 500, 1000, 1000 holds the runs
\* (1, 500) and (2, 1000): one appended by the second sample, one incremented
\* by the third, and two chunk offsets appended by two flushes.
C23_Witness ==
    /\ phase = "open"
    /\ \E i \in 1..Len(tracks) :
          /\ DurationsOf(written[i]) = <<500, 1000, 1000>>
          /\ tracks[i].sample_times = <<[sample_count |-> 1, sample_delta |-> 500],
                                        [sample_count |-> 2, sample_delta |-> 1000]>>
          /\ Len(tracks[i].chunk_offsets) = 2
          /\ Len(tracks[i].sample_sizes) = 3

----------------------------------------------------------------------------
(* Properties of the decoder on malformed and on string input *)

\* the j-th child declares a size of at least 8 that runs past the end of the
\* parent's body, and the children before it are boxes the loop passes
FirstOversized(j) ==
    /\ j \in 1..Len(codecChildren)
    /\ Len(codecChildren[j].bytes) >= 8
    /\ BigEndian(SubSeq(codecChildren[j].bytes, 1, 4)) >= 8
    /\ BigEndian(SubSeq(codecChildren[j].bytes, 1, 4)) > Len(codecChildren[j].bytes)
    /\ j = Len(codecChildren)
    /\ \A i \in 1..(j - 1) : ~Repeats(i) /\ ChildDecodes(codecKind, codecChildren[i])

\* C24 as stated: decoding a parent whose child declares a size larger than
\* the number of bytes left in the parent's buffer returns a decode error.
C24_OversizedChildIsDecodeError ==
    (codecResult.st # "none" /\ \E j \in 1..Len(codecChildren) : FirstOversized(j))
        => codecResult.st \in {"io", "qty"}

\* C24, what the decoder does: on such a child the call panics
C24_OversizedChildPanics ==
    (codecResult.st # "none" /\ \E j \in 1..Len(codecChildren) : FirstOversized(j))
        => codecResult = Panicked

\* the number of children of this type in the decoded body
CountOf(type) == Cardinality({k \in 1..Len(codecChildren) : codecChildren[k].type = type})

\* C25 as stated: decoding a media-information box whose children decode
\* returns an error when it holds neither a vmhd nor an smhd child, and also
\* when it holds both.
C25_MinfNeedsExactlyOneHeader ==
    ( /\ DecodedChildrenThatDecode("minf")
      /\ \/ CountOf(T_vmhd) = 0 /\ CountOf(T_smhd) = 0
         \/ CountOf(T_vmhd) >= 1 /\ CountOf(T_smhd) >= 1 )
    => codecResult.st \in {"io", "qty"}

\* the body of a media-information box holding a vmhd, an smhd, a dinf and an
\* stbl child, all well-formed
MinfWithBothHeaders ==
    WellFormed("vmhd") \o WellFormed("smhd") \o WellFormed("dinf") \o WellFormed("stbl")

\* C25, what the decoder does: with dinf and stbl present and neither header
\* the call panics (todo!()); with both headers it returns the video header
C25_MinfHeaderOutcome ==
    /\ ( /\ DecodedChildrenThatDecode("minf")
         /\ CountOf(T_vmhd) = 0 /\ CountOf(T_smhd) = 0
         /\ CountOf(T_dinf) = 1 /\ CountOf(T_stbl) = 1 )
       => codecResult = Panicked
    /\ (codecKind = "minf" /\ codecResult.st # "none") =>
          /\ ParentDecode("minf", MinfWithBothHeaders).st = "ok"
          /\ ParentDecode("minf", MinfWithBothHeaders).val.header
                = [variant |-> "Video", v |-> VideoMediaHeaderBoxDefault]

\* the input holds a NUL
HasNul(input) == \E k \in 1..Len(input) : input[k] = 0

\* the bytes of the input before its first NUL
BeforeFirstNul(input) ==
    SubSeq(input, 1, (CHOOSE k \in 1..Len(input) :
                         input[k] = 0 /\ \A j \in 1..(k - 1) : input[j] # 0) - 1)

\* C26 as stated: String::decode returns the bytes before the first 0x00
\* byte, and on a buffer without a 0x00 byte it returns the whole remaining
\* buffer as the string.
C26_StringDecodeToNulOrEnd ==
    (codecKind = "String" /\ codecResult.st # "none") =>
        /\ codecResult.st = "ok"
        /\ codecResult.val = IF HasNul(codecInput) THEN BeforeFirstNul(codecInput)
                             ELSE codecInput

\* C26, what the decoders do: with a 0x00 byte both return the bytes before
\* it and leave the 0x00 byte in the input; without one the decoder of
\* marshal.rs panics and the one of marshall.rs returns the empty string and
\* consumes nothing
C26_StringDecodeWithoutNul ==
    (codecKind = "String" /\ codecResult.st # "none") =>
        /\ HasNul(codecInput) =>
              /\ codecResult = Ok(BeforeFirstNul(codecInput),
                                  SubSeq(codecInput, Len(BeforeFirstNul(codecInput)) + 1,
                                         Len(codecInput)))
              /\ Head(codecResult.rest) = 0
              /\ SizedStringDecode(codecInput) = codecResult
        /\ ~HasNul(codecInput) =>
              /\ codecResult = Panicked
              /\ SizedStringDecode(codecInput) = Ok(<<>>, codecInput)

\* C27 as stated: encoding an empty string writes no byte, and encoding a
\* non-empty string writes its bytes followed by exactly one 0x00 byte.
C27_EmptyStringEncodesToNothing ==
    (codecKind = "String" /\ codecOutput # <<>>) =>
        codecOutput = IF codecValue = <<>> THEN <<>> ELSE codecValue \o <<0>>

\* C27, what the encoders do: the encoder of marshal.rs writes the bytes and
\* one 0x00 byte for every string, the empty one included; the encoder of
\* marshall.rs writes nothing for the empty string
C27_StringEncodeAlwaysTerminates ==
    (codecKind = "String" /\ codecOutput # <<>>) =>
        /\ codecOutput = codecValue \o <<0>>
        /\ sizedOutput = IF codecValue = <<>> THEN <<>> ELSE codecValue \o <<0>>

----------------------------------------------------------------------------
(* Properties of the url data entry *)

\* a data reference whose entries are all url entries, one at least
UrlEntriesOnly(b) == b # <<>> /\ \A k \in 1..Len(b) : b[k].variant = "Url"

\* no location of the entries holds a 0x00 byte
LocationsWithoutNul(b) ==
    \A k \in 1..Len(b) : IsSome(b[k].v.location) => ~HasNul(Unwrap(b[k].v.location))

\* in the bytes of a dref box with one url entry: bit 0 of the entry's flags
\* (the last byte of the 24-bit field) and the bytes that follow the flags
UrlFlagBit(bytes) == bytes[28] % 2
UrlLocationBytes(bytes) == SubSeq(bytes, 29, Len(bytes))

\* the encoder has written a location string exactly when it left flag bit 0
\* clear, for an entry with a location and for one without
UrlFlagTellsLocation ==
    (codecKind = "dref" /\ codecOutput # <<>> /\ UrlEntriesOnly(codecValue)
     /\ Len(codecValue) = 1) =>
        /\ (UrlFlagBit(codecOutput) = 0) <=> IsSome(codecValue[1].v.location)
        /\ UrlLocationBytes(codecOutput) =
              IF IsSome(codecValue[1].v.location)
              THEN Unwrap(codecValue[1].v.location) \o <<0>> ELSE <<>>

\* C28 as stated: the encoder writes a location string exactly when flag bit
\* 0 is clear, the decoder reads one under the same condition, and
\* decode(encode(e)) = e for every url entry, with or without a location.
C28_UrlEntryRoundTrips ==
    /\ UrlFlagTellsLocation
    /\ (codecKind = "dref" /\ codecResult.st # "none" /\ UrlEntriesOnly(codecValue)) =>
          codecResult.st = "ok" /\ codecResult.val = codecValue

\* C28 amended: the same, for url entries whose location, if any, holds no
\* 0x00 byte.
C28_UrlEntryWithoutNulRoundTrips ==
    /\ UrlFlagTellsLocation
    /\ (codecKind = "dref" /\ codecResult.st # "none" /\ UrlEntriesOnly(codecValue)
        /\ LocationsWithoutNul(codecValue)) =>
          codecResult.st = "ok" /\ codecResult.val = codecValue

\* C28 witness: a data reference holding a url entry with the location "ab"
\* and a url entry without location has been encoded and decoded to itself.
C28_Witness ==
    /\ codecKind = "dref"
    /\ Len(codecValue) = 2
    /\ codecValue[1] = [variant |-> "Url", v |-> [location |-> Some(<<97, 98>>)]]
    /\ codecValue[2] = [variant |-> "Url", v |-> [location |-> None]]
    /\ codecResult.st = "ok"
    /\ codecResult.val = codecValue

----------------------------------------------------------------------------
(* Properties of the durations and track ids finish() writes *)

\* a u64 in limbs plus a natural below 2^31, exactly (no carry leaves the
\* first limb for the sums of this model)
WideAdd64(w, n) ==
    LET l4 == w[4] + (n % Pow2_16)
        l3 == w[3] + (n \div Pow2_16) + (l4 \div Pow2_16)
        l2 == w[2] + (l3 \div Pow2_16)
        l1 == w[1] + (l2 \div Pow2_16)
    IN  <<l1 % Pow2_16, l2 % Pow2_16, l3 % Pow2_16, l4 % Pow2_16>>

RECURSIVE ExactSum(_)
\* the sum of the durations of the samples w as a u64 in limbs
ExactSum(w) ==
    IF w = <<>> THEN W64(0)
    ELSE WideAdd64(ExactSum(SubSeq(w, 1, Len(w) - 1)), w[Len(w)].duration)

\* C29 as stated: no sample() call fails, and after finish() the track-header
\* duration and the media-header duration of every track are the exact sum
\* of the durations of the samples written to it, for every sequence of u32
\* durations.
C29_DurationsAreExactSums ==
    /\ phase # "panicked"
    /\ phase = "finished" =>
          \A i \in 1..Len(Unwrap(movie).tracks) :
              /\ Unwrap(movie).tracks[i].header.duration = ExactSum(written[i])
              /\ Unwrap(movie).tracks[i].media.header.duration = ExactSum(written[i])

\* C29, what the writer does: both durations are the sum reduced modulo 2^32
\* (the low 32 bits of the exact sum, widened to u64) when the additions
\* wrap, and a sample() call whose addition overflows panics when they are
\* checked
C29_DurationsAreSumsModulo ==
    /\ phase = "finished" =>
          \A i \in 1..Len(Unwrap(movie).tracks) :
              /\ Unwrap(movie).tracks[i].header.duration
                    = WideAsU64(WideAsU32(ExactSum(written[i])))
              /\ Unwrap(movie).tracks[i].media.header.duration
                    = WideAsU64(WideAsU32(ExactSum(written[i])))
    /\ phase = "open" =>
          \A i \in 1..Len(tracks) : tracks[i].total_duration = WideAsU32(ExactSum(written[i]))

\* the track_id of the i-th track header of the assembled movie
TrackId(i) == Unwrap(movie).tracks[i].header.track_id

\* C30 as stated: in the movie assembled by finish(), the track_id values of
\* the track headers are non-zero and pairwise distinct, and the movie
\* header's next_track_id is greater than every track_id.
C30_TrackIdsDistinct ==
    phase = "finished" =>
        /\ \A i \in 1..Len(Unwrap(movie).tracks) :
              /\ TrackId(i) # 0
              /\ TrackId(i) < Unwrap(movie).header.next_track_id
        /\ \A i, j \in 1..Len(Unwrap(movie).tracks) : i # j => TrackId(i) # TrackId(j)

\* C30, what finish() writes: every track header carries track_id 1, and
\* next_track_id is the number of tracks plus one
C30_TrackIdsAllOne ==
    phase = "finished" =>
        /\ \A i \in 1..Len(Unwrap(movie).tracks) : TrackId(i) = 1
        /\ Unwrap(movie).header.next_track_id = Len(Unwrap(movie).tracks) + 1

====
